---- MODULE Spec2Model ----
(***************************************************************************)
(* The daily session loop of services/trading/run_bot.py (main_loop) as a  *)
(* state machine: one polling iteration is split at the points where the   *)
(* code reads the clock again (iteration start, the monitoring and waiting *)
(* sub-loops, the finally block), so that wall-clock time can pass between *)
(* them.  The broker, the bar source, the notifier and the files under     *)
(* logs/summaries are collaborators: each call either succeeds or raises.  *)
(***************************************************************************)
EXTENDS Integers, FiniteSets, Sequences, TLC

(* ------------------------------ bounds --------------------------------- *)
\* Calendar dates are 1..MaxDay; 0 stands for Python's None.
MaxDay == 3
\* Collaborator calls that raise, over one behaviour.
MaxFaults == 1
\* Process restarts (kill + start of main_loop), over one behaviour.
MaxRestarts == 1
\* Rows missing from the opening-range slice given to check_or_completeness.
MaxMissing == 4
\* The tolerance given to check_or_completeness.
MaxTolerance == 3
\* Bars after the entry bar given to simulate_exit and execute_day.
MaxPath == 2
\* The longest frame latest_slice is applied to, and how often in a row.
MaxRows == 2
MaxCalls == 2
\* The largest max_retries fetch_m1 is called with.
MaxRetries == 3

(* ------------------------- program constants --------------------------- *)
\* Time of day, as the index of the interval between the configured times:
\*   0 = before OR_START            1 = [OR_START, OR_END)
\*   2 = [OR_END, entry_wait_dt)    3 = [entry_wait_dt, entry_wait_dt + 5 min]
\*   4 = (entry_wait_dt + 5 min, EXIT_T)
\*   5 = the instant EXIT_T         6 = after EXIT_T, until midnight
T_OR_START == 1
T_OR_END == 2
T_ENTRY_WAIT == 3
T_GRACE_OVER == 4
T_EXIT == 5
T_LAST == T_EXIT + 1
\* Python's weekday() of a Saturday (ny_now.weekday() >= 5).
SATURDAY == 5
OR_INCOMPLETE_TOLERANCE == 2
or_expected_rows == 31
\* TOP_PCT, BOT_PCT in percent (0.35 in the source).
TOP_PCT == 35
BOT_PCT == 35
SL_PTS == 25
TP_PTS == 75
POINT_VAL == 80
POSITION_SIZE == 1

Dates == 1..MaxDay
None == 0
Sections == {"session_setup", "pre_trade_checks", "signal_decision", "trade_result"}
\* daily_details: for each section, the date it was produced on (None: absent).
EmptyDetails == [s \in Sections |-> None]
NoRecord == [s \in Sections |-> -1]

VARIABLES
    now,                    \* the wall clock: [d |-> date, t |-> time of day]
    openPos,                \* broker: open positions, by the date they were opened
    csvRows,                \* trade_days.csv: rows written, by date
    logRows,                \* <date>_summary.log: lines written, by date
    jsonRec,                \* daily_json/<date>.json: the record written, or NoRecord
    faults,                 \* collaborator calls that raised so far
    restarts,               \* process restarts so far
    pc,                     \* where main_loop stands
    ny_now,                 \* the clock as read at the start of the iteration
    last_trade_date,
    summary,
    summary_flushed_for,
    or_announced_for,
    session_announced_for,
    daily_details,
    start_account_snapshot,
    skipped_days,
    session_started_for,
    handled_days,
    lifeSignals,            \* history: summary["signals"] += 1, by date, this process
    lifeSubmits,            \* history: submit_market_with_sl_tp calls, by date, this process
    lifeCancelled,          \* history: dates on which the broker cancelled an order, this process
    started,                \* history: dates whose session-start step completed
    resumed,                \* history: the date of a restart made after that date's signal
    ev,                     \* what the last step did
    PLACE_ORDERS,           \* line 28: the live-order toggle the process was started with
    last_heartbeat_at,
    call,                   \* the last application of a pure function: its inputs and result
    counted                 \* history: the dates of the events counted in summary since its reset

env == <<now, openPos, csvRows, logRows, jsonRec, faults, restarts>>
prog == <<pc, ny_now, last_trade_date, summary, summary_flushed_for, or_announced_for,
          session_announced_for, daily_details, start_account_snapshot, skipped_days,
          session_started_for, handled_days, last_heartbeat_at>>
hist == <<lifeSignals, lifeSubmits, lifeCancelled, started, resumed, ev>>
vars == <<env, prog, hist, call, PLACE_ORDERS, counted>>

\* ev: body / fin say that the step was an iteration body / a finally block;
\* the others, what that step did (flushed: the date it flushed).
\* reason: what compute_signal answered, when the step called it; good: the
\* step's fetch gave a full opening range of positive range and a complete
\* entry bar; noExit: it gave no bar at EXIT_T.
\* hbDue: no heartbeat was emitted yet, or the heartbeat interval has passed
\* since the last one; hb: the step emitted a heartbeat, hbFailed: its broker
\* query raised, hbLocals: main_loop's locals right after it.
\* closeAll: the step called close_all_trades; notifyFailed: a notifier call
\* of the step raised; fetched: the step's fetch_m1 (line 297) returned bars;
\* orAnnounced: the step announced the opening-range levels (lines 462-500).
NoEv == [body |-> FALSE, fin |-> FALSE, announced |-> FALSE, computed |-> FALSE,
         sigInc |-> FALSE, skipInc |-> FALSE, submitted |-> FALSE, monitored |-> FALSE,
         flushed |-> None, reason |-> "", good |-> FALSE, noExit |-> FALSE,
         hbDue |-> FALSE, hb |-> FALSE, hbFailed |-> FALSE, hbLocals |-> <<>>,
         closeAll |-> FALSE, notifyFailed |-> FALSE, fetched |-> FALSE,
         orAnnounced |-> FALSE]
\* No pure function has been applied.
NoCall == [fn |-> "", in |-> <<>>, out |-> <<>>]
BodyEv == [NoEv EXCEPT !.body = TRUE]
FinEv == [NoEv EXCEPT !.fin = TRUE]
ZeroSummary == [signals |-> 0, orders |-> 0, skipped |-> 0, errors |-> 0]
\* Every step that raises a counter of summary belongs to the iteration whose
\* clock read gave ny_now: its date is the date of the event counted.  The
\* reset of summary (line 830, or a new process) forgets the dates.
Counted ==
    counted' = IF summary' = ZeroSummary THEN {}
               ELSE IF summary' # summary THEN counted \cup {ny_now'.d}
               ELSE counted
NoneByDate == [d \in Dates |-> 0]
\* The time c as last_heartbeat_at keeps it.  The clock of the model counts
\* intervals, not minutes, and cannot tell how long ago a kept time was (see
\* HeartbeatDue): every time is kept as the same value, different from None.
Stamp(c) == 1

(* ------------------------------ the clock ------------------------------ *)
\* Date 1 is a Thursday (weekday 3): two trading days, then a weekend.
weekday(d) == (d + 2) % 7
IsWeekend(d) == weekday(d) >= SATURDAY
in_session_window(t) == T_OR_START <= t /\ t <= T_EXIT
after_exit(t) == t >= T_EXIT

\* A read of the clock.  EXIT_T is an instant: reads are separated by I/O or
\* sleeps, so the read after one that returned EXIT_T is later than EXIT_T.
AfterRead(c) == IF c.t = T_EXIT THEN [c EXCEPT !.t = T_EXIT + 1] ELSE c

RECURSIVE SumTo(_, _)
SumTo(f, n) == IF n = 0 THEN 0 ELSE f[n] + SumTo(f, n - 1)
\* len(broker_oanda.get_open_trades())
TotalOpen == SumTo(openPos, MaxDay)

\* The outcomes a collaborator call can have when `used` calls of this step
\* have raised already.
Calls(used) == IF faults + used < MaxFaults THEN {"ok", "raise"} ELSE {"ok"}

(* ------------------------------- Init ---------------------------------- *)
\* main_loop's locals as lines 226-240 set them.
FreshLocals ==
    /\ pc = "top"
    /\ ny_now = [d |-> None, t |-> 0]
    /\ last_trade_date = None
    /\ last_heartbeat_at = None
    /\ summary = ZeroSummary
    /\ counted = {}
    /\ summary_flushed_for = None
    /\ or_announced_for = None
    /\ session_announced_for = None
    /\ start_account_snapshot = FALSE
    /\ skipped_days = [d \in Dates |-> "none"]
    /\ session_started_for = None
    /\ handled_days = {}

\* main_loop is started on date 1, at any time of day, with the toggle of line
\* 28 as place_orders and an account that holds the positions `held`.
InitWith(place_orders, held) ==
    /\ now \in [d : {1}, t : 0..T_LAST]
    /\ call = NoCall
    /\ PLACE_ORDERS = place_orders
    /\ openPos = held
    /\ csvRows = NoneByDate
    /\ logRows = NoneByDate
    /\ jsonRec = [d \in Dates |-> NoRecord]
    /\ faults = 0
    /\ restarts = 0
    /\ FreshLocals
    /\ daily_details = EmptyDetails
    /\ lifeSignals = NoneByDate
    /\ lifeSubmits = NoneByDate
    /\ lifeCancelled = {}
    /\ started = {}
    /\ resumed = None
    /\ ev = NoEv

\* The repository's configuration (PLACE_ORDERS = True) on a flat account.
Init == InitWith(TRUE, NoneByDate)

(* ------------------------- environment steps --------------------------- *)
\* When time can pass.  Every interval between two configured times lasts at
\* least five minutes and an iteration (fetch retries, the opening-range
\* re-check, the sleep before continue) lasts less: between the clock read
\* that starts an iteration and the end of its finally block the clock leaves
\* at most one interval (the instant EXIT_T is left at once).  The monitoring
\* and waiting sub-loops poll every 30 s: they see the twelve hours after
\* EXIT_T before midnight.  A process that is down stays down for any time.
TimePasses ==
    CASE pc \in {"fetch", "finally"} -> now = ny_now \/ now.t = T_EXIT
      [] pc \in {"monitor", "wait"} -> now.t < T_LAST
      [] pc = "down" -> TRUE
      [] OTHER -> FALSE

Tick ==
    /\ UNCHANGED <<call, PLACE_ORDERS>>
    /\ TimePasses
    /\ \/ /\ now.t < T_LAST
          /\ now' = [now EXCEPT !.t = now.t + 1]
       \/ /\ now.t = T_LAST
          /\ now.d < MaxDay
          /\ now' = [d |-> now.d + 1, t |-> 0]
    /\ ev' = NoEv
    /\ UNCHANGED <<openPos, csvRows, logRows, jsonRec, faults, restarts, prog,
                   lifeSignals, lifeSubmits, lifeCancelled, started, resumed>>
    /\ Counted

\* The broker closes a position on its attached stop loss or take profit.
BrokerCloses ==
    /\ UNCHANGED <<call, PLACE_ORDERS>>
    /\ \E d \in Dates :
          /\ openPos[d] > 0
          /\ openPos' = [openPos EXCEPT ![d] = @ - 1]
    /\ ev' = NoEv
    /\ UNCHANGED <<now, csvRows, logRows, jsonRec, faults, restarts, prog,
                   lifeSignals, lifeSubmits, lifeCancelled, started, resumed>>
    /\ Counted

(* --------------------------- process restart --------------------------- *)
\* The process is killed wherever it stands: everything main_loop holds in
\* memory is lost.  `resumed` remembers a kill made during the session of a
\* date whose session was announced and whose signal was decided.
Crash ==
    /\ UNCHANGED <<call, PLACE_ORDERS>>
    /\ pc # "down"
    /\ restarts < MaxRestarts
    /\ restarts' = restarts + 1
    /\ pc' = "down"
    /\ ny_now' = [d |-> None, t |-> 0]
    /\ last_trade_date' = None
    /\ last_heartbeat_at' = None
    /\ summary' = ZeroSummary
    /\ summary_flushed_for' = None
    /\ or_announced_for' = None
    /\ session_announced_for' = None
    /\ daily_details' = EmptyDetails
    /\ start_account_snapshot' = FALSE
    /\ skipped_days' = [d \in Dates |-> "none"]
    /\ session_started_for' = None
    /\ handled_days' = {}
    /\ lifeSignals' = NoneByDate
    /\ lifeSubmits' = NoneByDate
    /\ lifeCancelled' = {}
    /\ resumed' = IF /\ in_session_window(now.t)
                     /\ session_announced_for = now.d
                     /\ lifeSignals[now.d] > 0
                  THEN now.d ELSE None
    /\ ev' = NoEv
    /\ UNCHANGED <<now, openPos, csvRows, logRows, jsonRec, faults, started>>
    /\ Counted

\* main_loop starts again, lines 226-263: fresh locals, and the one thing
\* read back from disk is daily_json/<today>.json (a failed read is logged).
Start ==
    /\ UNCHANGED <<call, PLACE_ORDERS>>
    /\ pc = "down"
    /\ pc' = "top"
    /\ \E o \in (IF jsonRec[now.d] # NoRecord THEN Calls(0) ELSE {"ok"}) :
          /\ daily_details' = IF o = "ok" /\ jsonRec[now.d] # NoRecord
                              THEN jsonRec[now.d] ELSE EmptyDetails
          /\ faults' = faults + (IF o = "raise" THEN 1 ELSE 0)
    /\ resumed' = IF resumed = now.d /\ in_session_window(now.t) THEN resumed ELSE None
    /\ ev' = NoEv
    /\ UNCHANGED <<now, openPos, csvRows, logRows, jsonRec, restarts, ny_now,
                   last_trade_date, summary, summary_flushed_for, or_announced_for,
                   session_announced_for, start_account_snapshot, skipped_days,
                   session_started_for, handled_days, last_heartbeat_at,
                   lifeSignals, lifeSubmits, lifeCancelled, started>>
    /\ Counted

(* ------------------------ start of an iteration ------------------------ *)
\* Lines 267-270: a weekend iteration sleeps and continues (the finally
\* block still runs).
WeekendIteration ==
    /\ UNCHANGED <<call, PLACE_ORDERS>>
    /\ pc = "top"
    /\ IsWeekend(now.d)
    /\ ny_now' = now
    /\ now' = AfterRead(now)
    /\ pc' = "finally"
    /\ ev' = NoEv
    /\ UNCHANGED <<openPos, csvRows, logRows, jsonRec, faults, restarts,
                   last_trade_date, summary, summary_flushed_for, or_announced_for,
                   session_announced_for, daily_details, start_account_snapshot,
                   skipped_days, session_started_for, handled_days, last_heartbeat_at,
                   lifeSignals, lifeSubmits, lifeCancelled, started, resumed>>
    /\ Counted

\* MustAnnounce without the marker test of line 273.
MustAnnounceEveryIteration(c) == in_session_window(c.t)

\* Line 273: the session is announced once per date, inside the session window.
MustAnnounce(c) == in_session_window(c.t) /\ session_announced_for # c.d

\* Lines 276-294, the try block of the session start.  Its outcomes:
\*   "ok"           every broker call succeeded;
\*   "open_fail"    get_open_trades raised;
\*   "close_fail"   positions were found and close_all_trades raised;
\*   "summary_fail" get_account_summary raised;
\*   "notify_fail"  the notification that ends the block (line 292) raised.
SessionStartOutcomes ==
    {"ok"} \cup (IF faults < MaxFaults
                 THEN {"open_fail", "summary_fail", "notify_fail"}
                      \cup (IF TotalOpen > 0 THEN {"close_fail"} ELSE {})
                 ELSE {})

\* Lines 267-294 on a weekday: read the clock, announce the session and make
\* sure the account is flat, then go on to the bar fetch.
BeginIteration ==
    /\ UNCHANGED <<call, PLACE_ORDERS>>
    /\ pc = "top"
    /\ ~IsWeekend(now.d)
    /\ ny_now' = now
    /\ now' = AfterRead(now)
    /\ pc' = "fetch"
    /\ IF MustAnnounce(now)
       THEN /\ session_announced_for' = now.d
            /\ \E o \in SessionStartOutcomes :
                  LET done == o \in {"ok", "notify_fail"} IN
                  /\ openPos' = IF done \/ o = "summary_fail" THEN NoneByDate ELSE openPos
                  /\ start_account_snapshot' = IF done THEN TRUE ELSE start_account_snapshot
                  /\ session_started_for' = IF done THEN now.d ELSE session_started_for
                  /\ started' = IF done THEN started \cup {now.d} ELSE started
                  /\ faults' = faults + (IF o = "ok" THEN 0 ELSE 1)
                  /\ ev' = [NoEv EXCEPT !.announced = TRUE,
                                        !.closeAll = TotalOpen > 0 /\ o # "open_fail",
                                        !.notifyFailed = (o = "notify_fail")]
       ELSE /\ ev' = NoEv
            /\ UNCHANGED <<session_announced_for, openPos, start_account_snapshot,
                           session_started_for, started, faults>>
    /\ UNCHANGED <<csvRows, logRows, jsonRec, restarts,
                   last_trade_date, summary, summary_flushed_for, or_announced_for,
                   daily_details, skipped_days, handled_days, last_heartbeat_at,
                   lifeSignals, lifeSubmits, lifeCancelled, resumed>>
    /\ Counted

(* ------------------------------ the bars ------------------------------- *)
OrHighs == {100, 200}
OrLows == {100}
Closes == {120, 150, 170}
ORRowChoices == {0, or_expected_rows - OR_INCOMPLETE_TOLERANCE - 1,
                 or_expected_rows - OR_INCOMPLETE_TOLERANCE, or_expected_rows}
NoEntryBar == [present |-> FALSE, complete |-> FALSE, close |-> 0]
EntryBars == [present : {TRUE}, complete : BOOLEAN, close : Closes]

\* What fetch_m1 and the two latest_slice calls (lines 297-306) can give at
\* clock c: the opening-range slice (row count, max high, min low), the bar at
\* ENTRY_T and whether a bar at EXIT_T is there.  A bar exists only once its
\* minute has begun and is complete only once it has ended.
Feed(c) ==
    [orRows  : IF c.t >= T_OR_END THEN ORRowChoices ELSE {0},
     orHigh  : OrHighs,
     orLow   : OrLows,
     entry   : IF c.t >= T_ENTRY_WAIT THEN EntryBars \cup {NoEntryBar}
               ELSE IF c.t = T_OR_END
                    THEN {b \in EntryBars : ~b.complete} \cup {NoEntryBar}
                    ELSE {NoEntryBar},
     hasExit : IF c.t >= T_EXIT THEN BOOLEAN ELSE {FALSE}]

\* A re-fetch 15 s later (lines 402-407): bars that were late may have arrived.
Later(f) == {[f EXCEPT !.orRows = r] : r \in {x \in ORRowChoices : x >= f.orRows}}

\* Lines 399-420: up to three looks at the opening range, re-fetching before
\* the second and the third; a re-fetch that raises ends the iteration.
RetryResults(f) ==
    IF f.orRows = or_expected_rows
    THEN {[ok |-> TRUE, data |-> f, used |-> 0]}
    ELSE (IF faults < MaxFaults THEN {[ok |-> FALSE, data |-> f, used |-> 1]} ELSE {})
         \cup {[ok |-> TRUE, data |-> g, used |-> 0] :
                  g \in {h \in Later(f) : h.orRows = or_expected_rows}}
         \cup UNION {
                (IF faults < MaxFaults THEN {[ok |-> FALSE, data |-> g, used |-> 1]} ELSE {})
                \cup {[ok |-> TRUE, data |-> h, used |-> 0] : h \in Later(g)}
              : g \in {h \in Later(f) : h.orRows # or_expected_rows}}

\* check_or_completeness that skips as soon as the missing rows reach the tolerance.
check_or_completeness_at_tolerance(rows, expected, tolerance) ==
    LET missing_rows == expected - rows IN
    IF missing_rows > 0
    THEN IF missing_rows >= tolerance
         THEN [log_msg |-> TRUE, tweet_msg |-> TRUE, should_skip |-> TRUE]
         ELSE [log_msg |-> TRUE, tweet_msg |-> FALSE, should_skip |-> FALSE]
    ELSE [log_msg |-> FALSE, tweet_msg |-> FALSE, should_skip |-> FALSE]

\* check_or_completeness: which messages are returned, and should_skip.
check_or_completeness(rows, expected, tolerance) ==
    LET missing_rows == expected - rows IN
    IF missing_rows > 0
    THEN IF missing_rows > tolerance
         THEN [log_msg |-> TRUE, tweet_msg |-> TRUE, should_skip |-> TRUE]
         ELSE [log_msg |-> TRUE, tweet_msg |-> FALSE, should_skip |-> FALSE]
    ELSE [log_msg |-> FALSE, tweet_msg |-> FALSE, should_skip |-> FALSE]

\* No signal: compute_signal's (None, reason).
NoSignal(reason) == [side |-> "none", reason |-> reason, entry |-> 0, sl |-> 0, tp |-> 0]

\* compute_signal_with whose long check is strict (entry > top_cut).
compute_signal_strict_long(entry_bar, or_high, or_low, top_pct, bot_pct, sl_pts, tp_pts) ==
    LET or_rng == or_high - or_low
        bottom_cut100 == 100 * or_low + bot_pct * or_rng
        top_cut100 == 100 * or_high - top_pct * or_rng
        entry == entry_bar.close
    IN  IF ~entry_bar.present
        THEN NoSignal("missing_entry")
        ELSE IF ~entry_bar.complete
        THEN NoSignal("entry_incomplete")
        ELSE IF 100 * entry > top_cut100
        THEN [side |-> "long", reason |-> "long", entry |-> entry,
              sl |-> entry - sl_pts, tp |-> entry + tp_pts]
        ELSE IF 100 * entry <= bottom_cut100
        THEN [side |-> "short", reason |-> "short", entry |-> entry,
              sl |-> entry + sl_pts, tp |-> entry - tp_pts]
        ELSE NoSignal("none")

\* compute_signal_with whose short check comes before the long check.
compute_signal_short_first(entry_bar, or_high, or_low, top_pct, bot_pct, sl_pts, tp_pts) ==
    LET or_rng == or_high - or_low
        bottom_cut100 == 100 * or_low + bot_pct * or_rng
        top_cut100 == 100 * or_high - top_pct * or_rng
        entry == entry_bar.close
    IN  IF ~entry_bar.present
        THEN NoSignal("missing_entry")
        ELSE IF ~entry_bar.complete
        THEN NoSignal("entry_incomplete")
        ELSE IF 100 * entry <= bottom_cut100
        THEN [side |-> "short", reason |-> "short", entry |-> entry,
              sl |-> entry + sl_pts, tp |-> entry - tp_pts]
        ELSE IF 100 * entry >= top_cut100
        THEN [side |-> "long", reason |-> "long", entry |-> entry,
              sl |-> entry - sl_pts, tp |-> entry + tp_pts]
        ELSE NoSignal("none")

\* compute_signal_with without the check of the bar's complete flag (line 99).
compute_signal_any_candle(entry_bar, or_high, or_low, top_pct, bot_pct, sl_pts, tp_pts) ==
    LET or_rng == or_high - or_low
        bottom_cut100 == 100 * or_low + bot_pct * or_rng
        top_cut100 == 100 * or_high - top_pct * or_rng
        entry == entry_bar.close
    IN  IF ~entry_bar.present
        THEN NoSignal("missing_entry")
        ELSE IF 100 * entry >= top_cut100
        THEN [side |-> "long", reason |-> "long", entry |-> entry,
              sl |-> entry - sl_pts, tp |-> entry + tp_pts]
        ELSE IF 100 * entry <= bottom_cut100
        THEN [side |-> "short", reason |-> "short", entry |-> entry,
              sl |-> entry + sl_pts, tp |-> entry - tp_pts]
        ELSE NoSignal("none")

\* compute_signal (lines 87-106) for given values of the configured TOP_PCT,
\* BOT_PCT (in percent), SL_PTS and TP_PTS; the cutoffs are scaled by 100 to
\* stay in the integers.
compute_signal_with(entry_bar, or_high, or_low, top_pct, bot_pct, sl_pts, tp_pts) ==
    LET or_rng == or_high - or_low
        bottom_cut100 == 100 * or_low + bot_pct * or_rng
        top_cut100 == 100 * or_high - top_pct * or_rng
        entry == entry_bar.close
    IN  IF ~entry_bar.present
        THEN NoSignal("missing_entry")
        ELSE IF ~entry_bar.complete
        THEN NoSignal("entry_incomplete")
        ELSE IF 100 * entry >= top_cut100
        THEN [side |-> "long", reason |-> "long", entry |-> entry,
              sl |-> entry - sl_pts, tp |-> entry + tp_pts]
        ELSE IF 100 * entry <= bottom_cut100
        THEN [side |-> "short", reason |-> "short", entry |-> entry,
              sl |-> entry + sl_pts, tp |-> entry - tp_pts]
        ELSE NoSignal("none")

\* compute_signal with the stop at TP_PTS and the target at SL_PTS.
compute_signal_swapped_risk(entry_bar, or_high, or_low) ==
    compute_signal_with(entry_bar, or_high, or_low, TOP_PCT, BOT_PCT, TP_PTS, SL_PTS)

\* compute_signal as main_loop and the replay path call it.
compute_signal(entry_bar, or_high, or_low) ==
    compute_signal_with(entry_bar, or_high, or_low, TOP_PCT, BOT_PCT, SL_PTS, TP_PTS)

(* ------------------------- the iteration body -------------------------- *)
\* The locals the body may change, and the history it adds to.
Locals == [ltd |-> last_trade_date, summ |-> summary, skd |-> skipped_days,
           hd |-> handled_days, dd |-> daily_details, ora |-> or_announced_for,
           hb |-> last_heartbeat_at]
Life == [sig |-> lifeSignals, sub |-> lifeSubmits, canc |-> lifeCancelled]

\* The body ends: L are the locals it leaves, op the broker's positions, used
\* the calls that raised, npc where main_loop goes next.
Leaf(L, op, used, npc, e, G) ==
    /\ last_trade_date' = L.ltd
    /\ summary' = L.summ
    /\ skipped_days' = L.skd
    /\ handled_days' = L.hd
    /\ daily_details' = L.dd
    /\ or_announced_for' = L.ora
    /\ last_heartbeat_at' = L.hb
    /\ openPos' = op
    /\ faults' = faults + used
    /\ pc' = npc
    /\ ev' = e
    /\ lifeSignals' = G.sig
    /\ lifeSubmits' = G.sub
    /\ lifeCancelled' = G.canc
    /\ UNCHANGED <<now, csvRows, logRows, jsonRec, restarts, ny_now, summary_flushed_for,
                   session_announced_for, start_account_snapshot, session_started_for,
                   started, resumed>>

\* Lines 733-736: an exception anywhere in the try block is counted and the
\* iteration ends; what the body had changed so far stays changed.
Raise(L, op, used, e, G) ==
    Leaf([L EXCEPT !.summ.errors = @ + 1], op, used, "finally", e, G)

\* last_trade_date = trade_date; summary["skipped"] += 1; handled_days.add(trade_date)
MarkHandled(L, d) ==
    [L EXCEPT !.ltd = d, !.summ.skipped = @ + 1, !.hd = @ \cup {d}]

\* The skip blocks (lines 366-376, 381-391, 428-438, 447-457).
MarkSkipped(L, d, reason) ==
    IF L.skd[d] = "none" THEN [MarkHandled(L, d) EXCEPT !.skd[d] = reason] ELSE L

SkippedEv(L, d, e) == IF L.skd[d] = "none" THEN [e EXCEPT !.skipInc = TRUE] ELSE e

\* SkipIteration without the last_trade_date guard of lines 337-339.
SkipIterationNoTradeDateGuard(d) ==
    \/ skipped_days[d] # "none"
    \/ d \in handled_days

\* Lines 309 and 337: the date was skipped, handled or traded already.
SkipIteration(d) ==
    \/ skipped_days[d] # "none"
    \/ d \in handled_days
    \/ last_trade_date = d

\* submit_market_with_sl_tp and lines 567-581:
\*   "accepted"           the order is filled;
\*   "cancelled"          orderCancelTransaction, and the alert (if any) went out;
\*   "cancelled_raise"    INSUFFICIENT_MARGIN, and get_account_summary (line
\*                        571) raised while the alert was built;
\*   "cancelled_notify_raise"  INSUFFICIENT_MARGIN, and the notifier raised on
\*                        the alert (line 579, in no try of its own);
\*   "accepted_notify_raise"   the order is filled and the notifier raised on
\*                        the trade notification (lines 609-612, logged);
\*   "raise"              the request raised, no order was created.
SubmitOutcomes(used) ==
    {"cancelled"}
    \cup {"accepted"}
    \cup (IF faults + used < MaxFaults
          THEN {"raise", "cancelled_raise", "cancelled_notify_raise", "accepted_notify_raise"}
          ELSE {})

\* Lines 538-616: the signal is counted and archived, the order submitted.
SignalPath(d, L, G, e, used) ==
    LET L2 == [L EXCEPT !.summ.signals = @ + 1]
        G2 == [G EXCEPT !.sig[d] = @ + 1]
        e2 == [e EXCEPT !.sigInc = TRUE]
        L3 == [L2 EXCEPT !.dd["signal_decision"] = d]
        G3 == [G2 EXCEPT !.sub[d] = @ + 1]
        G4 == [G3 EXCEPT !.canc = @ \cup {d}]
        e3 == [e2 EXCEPT !.submitted = TRUE]
    IN  IF L.dd["session_setup"] = None
        THEN Raise(L2, openPos, used, e2, G2)      \* KeyError at line 543
        ELSE IF ~PLACE_ORDERS
        THEN Leaf([L3 EXCEPT !.ltd = d], openPos, used, "wait", e2, G2)
        ELSE \E o \in SubmitOutcomes(used) :
                CASE o = "raise" -> Raise(L3, openPos, used + 1, e3, G3)
                  [] o = "cancelled_raise" -> Raise(L3, openPos, used + 1, e3, G4)
                  [] o = "cancelled_notify_raise" ->
                        Raise(L3, openPos, used + 1, [e3 EXCEPT !.notifyFailed = TRUE], G4)
                  [] o = "accepted_notify_raise" ->
                        Leaf([L3 EXCEPT !.summ.orders = @ + 1, !.ltd = d],
                             [openPos EXCEPT ![d] = @ + 1], used + 1, "monitor",
                             [e3 EXCEPT !.notifyFailed = TRUE], G3)
                  [] o = "cancelled" ->
                        Leaf([L3 EXCEPT !.ltd = d], openPos, used, "wait", e3, G4)
                  [] o = "accepted" ->
                        Leaf([L3 EXCEPT !.summ.orders = @ + 1, !.ltd = d],
                             [openPos EXCEPT ![d] = @ + 1], used, "monitor", e3, G3)

\* EntryDecision that treats entry_incomplete like every other no-signal
\* answer: the date is marked handled.
EntryDecisionIncompleteIsFinal(d, g, L, G, e, used) ==
    IF ny_now.t < T_ENTRY_WAIT
    THEN Leaf(L, openPos, used, "finally", e, G)
    ELSE LET L1 == IF L.dd["pre_trade_checks"] = None
                   THEN [L EXCEPT !.dd["pre_trade_checks"] = d] ELSE L
             s == compute_signal(g.entry, g.orHigh, g.orLow)
             e1 == [e EXCEPT !.computed = TRUE, !.reason = s.reason]
         IN  IF s.side = "none"
             THEN Leaf(MarkHandled(L1, d), openPos, used, "finally",
                       [e1 EXCEPT !.skipInc = TRUE], G)
             ELSE SignalPath(d, L1, G, e1, used)

\* Lines 502-536: wait for the entry bar to close, then decide.
EntryDecision(d, g, L, G, e, used) ==
    IF ny_now.t < T_ENTRY_WAIT
    THEN Leaf(L, openPos, used, "finally", e, G)
    ELSE LET L1 == IF L.dd["pre_trade_checks"] = None
                   THEN [L EXCEPT !.dd["pre_trade_checks"] = d] ELSE L
             s == compute_signal(g.entry, g.orHigh, g.orLow)
             e1 == [e EXCEPT !.computed = TRUE, !.reason = s.reason]
         IN  IF s.side = "none"
             THEN IF s.reason = "entry_incomplete"
                  THEN Leaf(L1, openPos, used, "finally", e1, G)
                  ELSE Leaf(MarkHandled(L1, d), openPos, used, "finally",
                            [e1 EXCEPT !.skipInc = TRUE], G)
             ELSE SignalPath(d, L1, G, e1, used)

\* Lines 445-500: the zero-range skip, then the announcement of the levels.
RangeCheck(d, g, L, G, e, used) ==
    IF g.orHigh = g.orLow
    THEN Leaf(MarkSkipped(L, d, "or_zero_range"), openPos, used, "finally",
              SkippedEv(L, d, e), G)
    ELSE IF L.skd[d] = "none" /\ L.ora # d
    THEN EntryDecision(d, g, [L EXCEPT !.dd["session_setup"] = d, !.ora = d],
                       G, [e EXCEPT !.orAnnounced = TRUE], used)
    ELSE EntryDecision(d, g, L, G, e, used)

\* Lines 396-443: the completeness check of the opening range.
CompletenessCheck(d, f, L, G, e, used) ==
    IF L.skd[d] = "none"
    THEN \E r \in {x \in RetryResults(f) : faults + used + x.used <= MaxFaults} :
            IF ~r.ok
            THEN Raise(L, openPos, used + r.used, e, G)
            ELSE IF check_or_completeness(r.data.orRows, or_expected_rows,
                                          OR_INCOMPLETE_TOLERANCE).should_skip
            THEN Leaf(MarkSkipped(L, d, "or_incomplete"), openPos, used + r.used, "finally",
                      SkippedEv(L, d, e), G)
            ELSE RangeCheck(d, r.data, L, G, e, used + r.used)
    ELSE RangeCheck(d, f, L, G, e, used)

\* Lines 342-362: past the hard exit no trade is entered; positions found open
\* are closed (failures of the broker are logged and ignored).
PastHardExit(d, L, G, e, used) ==
    \E o \in {"ok"} \cup (IF faults + used < MaxFaults
                          THEN {"open_fail"} \cup (IF TotalOpen > 0 THEN {"close_fail"} ELSE {})
                          ELSE {}) :
        Leaf(MarkHandled(L, d),
             IF o = "ok" THEN NoneByDate ELSE openPos,
             IF o = "ok" THEN used ELSE used + 1,
             "finally",
             [e EXCEPT !.skipInc = TRUE, !.closeAll = TotalOpen > 0 /\ o # "open_fail"], G)

\* Line 309: the date was skipped or handled already; the iteration sleeps
\* and continues.
AlreadyDecided(d) ==
    \/ skipped_days[d] # "none"
    \/ d \in handled_days

\* Line 316: a heartbeat is due when none was emitted yet or when hb_interval
\* (10 minutes inside the session window, an hour outside) has elapsed.
HeartbeatDue(elapsed) == last_heartbeat_at = None \/ elapsed

\* Heartbeat that counts a failed broker query as an error of the iteration.
HeartbeatCountsFailure(L, o) ==
    IF o = "raise"
    THEN [L EXCEPT !.hb = Stamp(ny_now), !.summ.errors = @ + 1]
    ELSE [L EXCEPT !.hb = Stamp(ny_now)]

\* Lines 317-328: the heartbeat.  o is the outcome of get_open_trades, whose
\* exception is logged (lines 318-321); the line is logged and
\* last_heartbeat_at = ny_now.
Heartbeat(L, o) == [L EXCEPT !.hb = Stamp(ny_now)]

\* Lines 330-536: the day logic on the fetched bars.
DayLogic(d, f, L, G, e, used) ==
    IF SkipIteration(d)
    THEN Leaf(L, openPos, used, "finally", e, G)
    ELSE IF after_exit(ny_now.t)
    THEN PastHardExit(d, L, G, e, used)
    ELSE IF ny_now.t >= T_GRACE_OVER /\ ~f.entry.present
    THEN Leaf(MarkSkipped(L, d, "missing_entry_bar"), openPos, used, "finally",
              SkippedEv(L, d, e), G)
    ELSE IF after_exit(ny_now.t) /\ ~f.hasExit
    THEN Leaf(MarkSkipped(L, d, "missing_exit_bar"), openPos, used, "finally",
              SkippedEv(L, d, e), G)
    ELSE IF ny_now.t >= T_OR_END
    THEN CompletenessCheck(d, f, L, G, e, used)
    ELSE EntryDecision(d, f, L, G, e, used)

\* Lines 308-536 after a successful fetch: the guard of line 309, the
\* heartbeat when it is due, then the day logic.
AfterFetch(d, f, L, G, e) ==
    IF AlreadyDecided(d)
    THEN Leaf(L, openPos, 0, "finally", e, G)
    ELSE IF ~e.hbDue
    THEN DayLogic(d, f, L, G, e, 0)
    ELSE \E o \in Calls(0) :
            DayLogic(d, f, Heartbeat(L, o), G,
                     [e EXCEPT !.hb = TRUE, !.hbFailed = (o = "raise"),
                               !.hbLocals = Heartbeat(L, o)],
                     IF o = "raise" THEN 1 ELSE 0)

\* What the iteration's fetch gave, for the record of the step.
FetchedEv(f) ==
    [BodyEv EXCEPT !.good = /\ f.orRows = or_expected_rows
                            /\ f.orHigh > f.orLow
                            /\ f.entry.present /\ f.entry.complete,
                   !.noExit = ~f.hasExit,
                   !.fetched = TRUE]

\* Lines 296-616: fetch the bars and run the day logic on them.  elapsed says
\* whether ny_now - last_heartbeat_at >= hb_interval: the abstract clock does
\* not measure minutes, both answers are possible once a heartbeat was emitted.
Body ==
    /\ UNCHANGED <<call, PLACE_ORDERS>>
    /\ pc = "fetch"
    /\ \E fo \in Calls(0), elapsed \in (IF last_heartbeat_at = None THEN {TRUE} ELSE BOOLEAN) :
          IF fo = "raise"
          THEN Raise(Locals, openPos, 1, [BodyEv EXCEPT !.hbDue = HeartbeatDue(elapsed)], Life)
          ELSE \E f \in Feed(now) :
                  AfterFetch(ny_now.d, f, Locals, Life,
                             [FetchedEv(f) EXCEPT !.hbDue = HeartbeatDue(elapsed)])
    /\ Counted

(* ------------------- monitoring and waiting sub-loops ------------------ *)
\* Lines 622-631, one turn of the monitoring loop before the hard exit: sleep,
\* then ask the broker; a poll that raises is logged and the loop goes on.
\* Lines 647-728 follow when the broker reports no open trade: the post-trade
\* statistics (trade_result is archived when the bars could be fetched).
MonitorPoll ==
    /\ UNCHANGED <<call, PLACE_ORDERS>>
    /\ pc = "monitor"
    /\ now.t < T_EXIT
    /\ \E o \in Calls(0) :
          IF o = "raise"
          THEN /\ faults' = faults + 1
               /\ UNCHANGED <<pc, daily_details>>
          ELSE /\ TotalOpen = 0
               /\ pc' = "finally"
               /\ \E archived \in BOOLEAN :
                     daily_details' = IF archived
                                      THEN [daily_details EXCEPT !["trade_result"] = ny_now.d]
                                      ELSE daily_details
               /\ UNCHANGED faults
    /\ ev' = [NoEv EXCEPT !.monitored = TRUE]
    /\ UNCHANGED <<now, openPos, csvRows, logRows, jsonRec, restarts, ny_now,
                   last_trade_date, summary, summary_flushed_for, or_announced_for,
                   session_announced_for, start_account_snapshot, skipped_days,
                   session_started_for, handled_days, last_heartbeat_at,
                   lifeSignals, lifeSubmits, lifeCancelled, started, resumed>>
    /\ Counted

\* close_all_trades at the hard exit (line 639).
CloseAllOutcomes == Calls(0)

\* Lines 622 and 637-728: the loop condition fails at the first read of the
\* clock at or after EXIT_T; the position is closed with close_all_trades,
\* which is not inside a try: if it raises, lines 733-736 end the iteration.
MonitorHardExit ==
    /\ UNCHANGED <<call, PLACE_ORDERS>>
    /\ pc = "monitor"
    /\ now.t >= T_EXIT
    /\ now' = AfterRead(now)
    /\ pc' = "finally"
    /\ \E o \in CloseAllOutcomes :
          IF o = "raise"
          THEN /\ faults' = faults + 1
               /\ summary' = [summary EXCEPT !.errors = @ + 1]
               /\ UNCHANGED <<openPos, daily_details>>
          ELSE /\ openPos' = NoneByDate
               /\ \E archived \in BOOLEAN :
                     daily_details' = IF archived
                                      THEN [daily_details EXCEPT !["trade_result"] = ny_now.d]
                                      ELSE daily_details
               /\ UNCHANGED <<faults, summary>>
    /\ ev' = [NoEv EXCEPT !.monitored = TRUE, !.closeAll = TRUE]
    /\ UNCHANGED <<csvRows, logRows, jsonRec, restarts, ny_now,
                   last_trade_date, summary_flushed_for, or_announced_for,
                   session_announced_for, start_account_snapshot, skipped_days,
                   session_started_for, handled_days, last_heartbeat_at,
                   lifeSignals, lifeSubmits, lifeCancelled, started, resumed>>
    /\ Counted

\* Lines 729-731: without an active order the iteration sleeps until EXIT_T.
WaitForExit ==
    /\ UNCHANGED <<call, PLACE_ORDERS>>
    /\ pc = "wait"
    /\ now.t >= T_EXIT
    /\ now' = AfterRead(now)
    /\ pc' = "finally"
    /\ ev' = NoEv
    /\ UNCHANGED <<openPos, csvRows, logRows, jsonRec, faults, restarts, ny_now,
                   last_trade_date, summary, summary_flushed_for, or_announced_for,
                   session_announced_for, daily_details, start_account_snapshot,
                   skipped_days, session_started_for, handled_days, last_heartbeat_at,
                   lifeSignals, lifeSubmits, lifeCancelled, started, resumed>>
    /\ Counted

(* --------------------------- the finally block ------------------------- *)
\* FlushDue without the marker and session conjuncts of lines 740-741.
FlushDueEveryIteration(c) ==
    /\ after_exit(c.t)
    /\ last_trade_date # None

\* FlushDue without the session_started_for conjunct of line 741.
FlushDueNoSessionCheck(c) ==
    /\ after_exit(c.t)
    /\ last_trade_date # None
    /\ summary_flushed_for # last_trade_date

\* Lines 739-741, at clock c.
FlushDue(c) ==
    /\ after_exit(c.t)
    /\ last_trade_date # None
    /\ summary_flushed_for # last_trade_date
    /\ session_started_for = last_trade_date

\* Lines 796-820: the three writes of the flush, none of them inside a try.
\*   "csv_fail"  the CSV could not be opened or written: nothing is written;
\*   "json_fail" the row is written, the JSON record is not;
\*   "log_fail"  the row and the record are written, the summary line is not.
FlushOutcomes ==
    {"ok"} \cup (IF faults < MaxFaults
                 THEN {"csv_fail", "log_fail"}
                      \cup (IF daily_details # EmptyDetails THEN {"json_fail"} ELSE {})
                 ELSE {})

\* Lines 737-834: the finally block runs at the end of every iteration.  An
\* exception raised inside it is caught by nothing: it leaves main_loop.
Finally ==
    /\ UNCHANGED <<call, PLACE_ORDERS>>
    /\ pc = "finally"
    /\ now' = AfterRead(now)
    /\ IF FlushDue(now)
       THEN \E o \in FlushOutcomes :
               LET D == last_trade_date IN
               /\ csvRows' = IF o # "csv_fail" THEN [csvRows EXCEPT ![D] = @ + 1] ELSE csvRows
               /\ jsonRec' = IF o \in {"ok", "log_fail"} /\ daily_details # EmptyDetails
                             THEN [jsonRec EXCEPT ![D] = daily_details] ELSE jsonRec
               /\ logRows' = IF o = "ok" THEN [logRows EXCEPT ![D] = @ + 1] ELSE logRows
               /\ faults' = faults + (IF o = "ok" THEN 0 ELSE 1)
               /\ IF o = "ok"
                  THEN /\ summary' = ZeroSummary
                       /\ daily_details' = EmptyDetails
                       /\ summary_flushed_for' = D
                       /\ start_account_snapshot' = FALSE
                       /\ session_started_for' = None
                       /\ pc' = "top"
                       /\ ev' = [FinEv EXCEPT !.flushed = D]
                  ELSE /\ pc' = "dead"
                       /\ ev' = FinEv
                       /\ UNCHANGED <<summary, daily_details, summary_flushed_for,
                                      start_account_snapshot, session_started_for>>
       ELSE /\ pc' = "top"
            /\ ev' = FinEv
            /\ UNCHANGED <<csvRows, jsonRec, logRows, faults, summary, daily_details,
                           summary_flushed_for, start_account_snapshot, session_started_for>>
    /\ UNCHANGED <<openPos, restarts, ny_now, last_trade_date, or_announced_for,
                   session_announced_for, skipped_days, handled_days, last_heartbeat_at,
                   lifeSignals, lifeSubmits, lifeCancelled, started, resumed>>
    /\ Counted

(* --------------------------- pure functions ---------------------------- *)
\* compute_signal_for_date that looks for the entry bar before it validates
\* the opening range.
compute_signal_for_date_entry_first(or_empty, or_high, or_low, has_entry, e, top_pct, bot_pct, sl_pts, tp_pts) ==
    LET or_range == or_high - or_low
        bottom_cut100 == 100 * or_low + bot_pct * or_range
        top_cut100 == 100 * or_high - top_pct * or_range
        Unpriced(decision) == [decision |-> decision, priced |-> FALSE, entry_price |-> 0,
                               stopped |-> FALSE, sl |-> 0, tp |-> 0]
    IN  IF ~has_entry
        THEN Unpriced("no_signal_missing_1022")
        ELSE IF or_empty \/ or_range <= 0
        THEN Unpriced("invalid_or")
        ELSE IF 100 * e >= top_cut100
        THEN [decision |-> "long", priced |-> TRUE, entry_price |-> e,
              stopped |-> TRUE, sl |-> e - sl_pts, tp |-> e + tp_pts]
        ELSE IF 100 * e <= bottom_cut100
        THEN [decision |-> "short", priced |-> TRUE, entry_price |-> e,
              stopped |-> TRUE, sl |-> e + sl_pts, tp |-> e - tp_pts]
        ELSE [decision |-> "none", priced |-> TRUE, entry_price |-> e,
              stopped |-> FALSE, sl |-> 0, tp |-> 0]

\* or_core.compute_signal_for_date (lines 233-284) on what load_day_window
\* gives it: whether or_slice is empty, qc's or_high and or_low (or_range is
\* their difference, None for an empty slice), and the close of the bar at
\* ENTRY_T (_first_close_at: None when there is no such bar).  priced and
\* stopped say that entry_price, and sl and tp, are not None.
compute_signal_for_date(or_empty, or_high, or_low, has_entry, e, top_pct, bot_pct, sl_pts, tp_pts) ==
    LET or_range == or_high - or_low
        bottom_cut100 == 100 * or_low + bot_pct * or_range
        top_cut100 == 100 * or_high - top_pct * or_range
        Unpriced(decision) == [decision |-> decision, priced |-> FALSE, entry_price |-> 0,
                               stopped |-> FALSE, sl |-> 0, tp |-> 0]
    IN  IF or_empty \/ or_range <= 0
        THEN Unpriced("invalid_or")
        ELSE IF ~has_entry
        THEN Unpriced("no_signal_missing_1022")
        ELSE IF 100 * e >= top_cut100
        THEN [decision |-> "long", priced |-> TRUE, entry_price |-> e,
              stopped |-> TRUE, sl |-> e - sl_pts, tp |-> e + tp_pts]
        ELSE IF 100 * e <= bottom_cut100
        THEN [decision |-> "short", priced |-> TRUE, entry_price |-> e,
              stopped |-> TRUE, sl |-> e + sl_pts, tp |-> e - tp_pts]
        ELSE [decision |-> "none", priced |-> TRUE, entry_price |-> e,
              stopped |-> FALSE, sl |-> 0, tp |-> 0]

\* One turn of the walk of simulate_exit (lines 119-129, 134-143) and of
\* execute_day (or_core.py lines 349-369): "sl", "tp" or "" (not touched).
bar_exit_target_first(row, side, sl, tp) ==
    LET touched_tp == IF side = "long" THEN row.high >= tp ELSE row.low <= tp
        touched_sl == IF side = "long" THEN row.low <= sl ELSE row.high >= sl
    IN  IF touched_tp THEN "tp" ELSE IF touched_sl THEN "sl" ELSE ""

bar_exit(row, side, sl, tp) ==
    LET touched_tp == IF side = "long" THEN row.high >= tp ELSE row.low <= tp
        touched_sl == IF side = "long" THEN row.low <= sl ELSE row.high >= sl
    IN  IF touched_tp /\ touched_sl THEN "sl"
        ELSE IF touched_sl THEN "sl"
        ELSE IF touched_tp THEN "tp"
        ELSE ""

\* No exit was found: exit_ts, exit_px and exit_reason are None.
NoExit == [exit_idx |-> 0, exit_px |-> 0, exit_reason |-> "None"]

\* for ts, row in path.iterrows(): ... break, from the i-th bar of path on.
RECURSIVE walk_path(_, _, _, _, _)
walk_path(path, i, side, sl, tp) ==
    IF i > Len(path) THEN NoExit
    ELSE LET r == bar_exit(path[i], side, sl, tp) IN
         IF r = "sl" THEN [exit_idx |-> i, exit_px |-> sl, exit_reason |-> "sl"]
         ELSE IF r = "tp" THEN [exit_idx |-> i, exit_px |-> tp, exit_reason |-> "tp"]
         ELSE walk_path(path, i + 1, side, sl, tp)

\* pnl_pts computed as for a long whatever the side.
pnl_pts_as_long(side, entry, px) == px - entry

\* pnl_pts of an exit at price px (line 169; or_core.py line 384).
pnl_pts(side, entry, px) ==
    IF side = "long" THEN px - entry ELSE entry - px

\* The time exit (lines 145-149; or_core.py lines 331-337 and 372-375): at the
\* last bar of a path that is not empty (the bar of EXIT_T when the window
\* holds it), at that bar's close.
time_exit_first_bar(path) ==
    [exit_idx |-> 1, exit_px |-> path[1].close, exit_reason |-> "time"]

time_exit(path) ==
    [exit_idx |-> Len(path), exit_px |-> path[Len(path)].close, exit_reason |-> "time"]

\* trade_path["high"].max() and trade_path["low"].min() over bars 1..n (n >= 1).
RECURSIVE MaxHigh(_, _)
MaxHigh(path, n) ==
    IF n = 1 THEN path[1].high
    ELSE LET m == MaxHigh(path, n - 1) IN IF path[n].high > m THEN path[n].high ELSE m
RECURSIVE MinLow(_, _)
MinLow(path, n) ==
    IF n = 1 THEN path[1].low
    ELSE LET m == MinLow(path, n - 1) IN IF path[n].low < m THEN path[n].low ELSE m

\* Lines 151-164: trade_path is path.loc[:exit_ts], the bars up to and
\* including the exit bar (the whole, empty, path when exit_ts is None); mfe and
\* mae stay 0.0 on an empty trade_path and are the plain differences otherwise.
excursions(path, side, entry, exit_idx) ==
    IF exit_idx = 0
    THEN [mfe |-> 0, mae |-> 0]
    ELSE IF side = "long"
    THEN [mfe |-> MaxHigh(path, exit_idx) - entry, mae |-> entry - MinLow(path, exit_idx)]
    ELSE [mfe |-> entry - MinLow(path, exit_idx), mae |-> MaxHigh(path, exit_idx) - entry]

\* simulate_exit (lines 109-179) on path, the bars of the window after the
\* entry bar, in the frame's order (sorted by time: data_feed.py line 55,
\* run_bot.py line 846).  has_pnl is FALSE when pnl_pts and pnl_usd are None
\* (lines 166-168: no exit price), and the two fields then hold no value.
simulate_exit(path, side, entry, sl, tp) ==
    LET w == walk_path(path, 1, side, sl, tp)
        x == IF w # NoExit THEN w
             ELSE IF path # <<>> THEN time_exit(path)
             ELSE NoExit
        m == excursions(path, side, entry, x.exit_idx)
        known == x.exit_reason # "None"
        pts == IF known THEN pnl_pts(side, entry, x.exit_px) ELSE 0
    IN  [exit_idx |-> x.exit_idx, exit_px |-> x.exit_px, exit_reason |-> x.exit_reason,
         has_pnl |-> known, pnl_pts |-> pts, pnl_usd |-> pts * POINT_VAL * POSITION_SIZE,
         mfe |-> m.mfe, mae |-> m.mae]

\* execute_day (or_core.py lines 302-394) for a long or short signal: the same
\* walk; the time exit is at the bar of EXIT_T, the last of the window, or at
\* the last bar there is; without any bar after the entry the day is flat
\* (lines 376-382: no_trade at the entry price, pnl_pts = pnl_usd = 0.0).
execute_day(path, decision, E, SL, TP) ==
    LET w == walk_path(path, 1, decision, SL, TP)
        x == IF w # NoExit THEN w
             ELSE IF path # <<>> THEN time_exit(path)
             ELSE [exit_idx |-> 0, exit_px |-> E, exit_reason |-> "no_trade"]
        pts == IF x.exit_reason = "no_trade" THEN 0 ELSE pnl_pts(decision, E, x.exit_px)
    IN  [exit_idx |-> x.exit_idx, exit_px |-> x.exit_px, exit_reason |-> x.exit_reason,
         has_pnl |-> TRUE, pnl_pts |-> pts, pnl_usd |-> pts * POINT_VAL * POSITION_SIZE]

\* The replay path (lines 870-913) on the slices of the replay file: the rows
\* of the opening-range slice, its highest high and lowest low, and the bar at
\* ENTRY_T.  report is the line added to the report, computed says that
\* compute_signal was called, side is the signal reported.
replay(rows, or_high, or_low, entry_bar) ==
    IF rows # or_expected_rows
    THEN [report |-> "[SKIPPED] OR incomplete", computed |-> FALSE, side |-> "none"]
    ELSE IF ~entry_bar.present
    THEN [report |-> "[SKIPPED] Missing entry bar", computed |-> FALSE, side |-> "none"]
    ELSE LET sig == compute_signal(entry_bar, or_high, or_low) IN
         IF sig.side = "none"
         THEN [report |-> "[NO TRADE]", computed |-> TRUE, side |-> "none"]
         ELSE [report |-> "[SIGNAL]", computed |-> TRUE, side |-> sig.side]

\* Lines 587-606: the levels in use after an accepted order.  fill is the
\* orderFillTransaction of the broker's answer: without it or without a price
\* fill_px is 0.0; a price that float() cannot parse raises, and the except of
\* line 605 leaves the levels as signalled.
align_to_fill_keep_stops(side, entry, sl, tp, fill) ==
    LET fill_px == IF fill.kind = "price" THEN fill.px ELSE 0 IN
    IF fill.kind # "unparsable" /\ fill_px > 0
    THEN [entry |-> fill_px, sl |-> sl, tp |-> tp]
    ELSE [entry |-> entry, sl |-> sl, tp |-> tp]

align_to_fill(side, entry, sl, tp, fill) ==
    LET fill_px == IF fill.kind = "price" THEN fill.px ELSE 0 IN
    IF fill.kind # "unparsable" /\ fill_px > 0
    THEN IF side = "long"
         THEN [entry |-> fill_px, sl |-> fill_px - SL_PTS, tp |-> fill_px + TP_PTS]
         ELSE [entry |-> fill_px, sl |-> fill_px + SL_PTS, tp |-> fill_px - TP_PTS]
    ELSE [entry |-> entry, sl |-> sl, tp |-> tp]

\* What one date comes to: kind is "or_incomplete", "or_zero_range" or
\* "missing_entry" for a skip, and compute_signal's reason otherwise.
Skipped(kind) == [kind |-> kind, entry |-> 0, sl |-> 0, tp |-> 0]
Decided(sig) == [kind |-> sig.reason, entry |-> sig.entry, sl |-> sig.sl, tp |-> sig.tp]
IsSkip(o) == o.kind \in {"or_incomplete", "or_zero_range", "missing_entry"}

\* The replay path (lines 869-903) on the bars of one date.
replay_day(rows, or_high, or_low, entry_bar) ==
    IF rows # or_expected_rows
    THEN Skipped("or_incomplete")
    ELSE IF ~entry_bar.present
    THEN Skipped("missing_entry")
    ELSE Decided(compute_signal(entry_bar, or_high, or_low))

\* One iteration of main_loop (lines 364-378, 395-459 and 520) that finds the
\* same bars, after the wait for the entry bar and before the hard exit, on a
\* date not yet marked.
live_day(rows, or_high, or_low, entry_bar) ==
    IF ~entry_bar.present
    THEN Skipped("missing_entry")
    ELSE IF check_or_completeness(rows, or_expected_rows, OR_INCOMPLETE_TOLERANCE).should_skip
    THEN Skipped("or_incomplete")
    ELSE IF or_high = or_low
    THEN Skipped("or_zero_range")
    ELSE Decided(compute_signal(entry_bar, or_high, or_low))

\* Lines 446 and 462-484: the levels archived in session_setup by the
\* iteration that announces them, from the opening-range slice it fetched.
session_setup_levels(or_high, or_low) ==
    [or_high |-> or_high, or_low |-> or_low, or_range |-> or_high - or_low]

\* Lines 543-551: entry_bounds of signal_decision, computed from the archived
\* session_setup (scaled by 100 like compute_signal's cutoffs).
entry_bounds(setup) ==
    [top_cut100 |-> 100 * setup.or_high - TOP_PCT * setup.or_range,
     bottom_cut100 |-> 100 * setup.or_low + BOT_PCT * setup.or_range]

\* Lines 89-93: the levels compute_signal derives from the slice it is given.
compute_signal_levels(or_high, or_low) ==
    [or_high |-> or_high, or_low |-> or_low, or_range |-> or_high - or_low,
     top_cut100 |-> 100 * or_high - TOP_PCT * (or_high - or_low),
     bottom_cut100 |-> 100 * or_low + BOT_PCT * (or_high - or_low)]

\* The iteration that announces the levels (lines 446-500) on the slice
\* `first`, then the iteration that decides (lines 520-553) on the slice
\* `later` it fetched itself (lines 297-300): what the record keeps and what
\* compute_signal used.
announce_then_decide(first, later, entry_bar) ==
    LET setup == session_setup_levels(first.or_high, first.or_low) IN
    [session_setup |-> setup,
     entry_bounds |-> entry_bounds(setup),
     used |-> compute_signal_levels(later.or_high, later.or_low),
     sig |-> compute_signal(entry_bar, later.or_high, later.or_low)]

(* data_feed.py *)
\* DataFrame.between_time(start, end, inclusive="both") (line 74) on the rows
\* of a frame indexed by time_ny: the rows whose time of day lies in
\* [start, end], in the frame's order; when start is later than end the
\* window wraps around midnight.
between_time_end_exclusive(rows, start, end) ==
    LET Keep(b) == IF start <= end
                   THEN start <= b.time_ny /\ b.time_ny < end
                   ELSE start <= b.time_ny \/ b.time_ny < end
    IN  SelectSeq(rows, Keep)

between_time(rows, start, end) ==
    LET Keep(b) == IF start <= end
                   THEN start <= b.time_ny /\ b.time_ny <= end
                   ELSE start <= b.time_ny \/ b.time_ny <= end
    IN  SelectSeq(rows, Keep)

\* latest_slice (lines 68-74).  A frame is its rows and what indexes them
\* (fetch_m1 leaves a RangeIndex, line 55).  result is the frame returned,
\* source the caller's frame after the call: an empty frame is returned as it
\* is; otherwise the index is set on a copy (line 72) and the copy is sliced.
latest_slice(df, start, end) ==
    IF df.rows = <<>>
    THEN [result |-> df, source |-> df]
    ELSE [result |-> [rows |-> between_time(df.rows, start, end), index |-> "time_ny"],
          source |-> df]

\* latest_slice called n times in a row on the same frame.
RECURSIVE latest_slice_times(_, _, _, _)
latest_slice_times(df, start, end, n) ==
    IF n = 1 THEN latest_slice(df, start, end)
    ELSE latest_slice(latest_slice_times(df, start, end, n - 1).source, start, end)

\* Lines 299-300 and 330-331 of main_loop on the frame fetch_m1 returned: the
\* two slices, and the rows at ENTRY_T that has_entry and compute_signal
\* (line 95) look at.  s gives the minutes OR_START, OR_END, ENTRY_T and EXIT_T.
main_loop_slices(df, s) ==
    LET slice_win == latest_slice(df, s.or_start, s.exit).result.rows
        slice_or == latest_slice(df, s.or_start, s.or_end).result.rows
        e_rows == SelectSeq(slice_win, LAMBDA b : b.time_ny = s.entry)
    IN  [slice_win |-> slice_win, slice_or |-> slice_or,
         has_entry |-> e_rows # <<>>, e_rows |-> e_rows]

\* Line 62: backoff_seconds *= 2.
next_backoff_constant(backoff_seconds) == backoff_seconds

next_backoff(backoff_seconds) == backoff_seconds * 2

\* fetch_m1 (lines 25-65) from attempt number `attempt` (0-based, as range()
\* counts) on.  answers[k] is what the k-th request of the call meets:
\*   "ok"         candles arrive and parse: the sorted frame is returned;
\*   "transport"  requests.exceptions.RequestException (connection, timeout,
\*                HTTP status): caught at line 58, slept on, retried;
\*   "other"      any other exception (a candle without "time", an empty
\*                candle list at sort_values): it leaves fetch_m1 at once.
\* sleeps are the waits made so far, last_exception the attempt whose
\* exception line 59 kept (0: None).
RECURSIVE fetch_attempt(_, _, _, _, _, _)
fetch_attempt(answers, attempt, max_retries, backoff_seconds, sleeps, last_exception) ==
    IF attempt >= max_retries
    THEN [result |-> "raise", error |-> last_exception, bars_of |-> 0,
          attempts |-> attempt, sleeps |-> sleeps]
    ELSE CASE answers[attempt + 1] = "ok" ->
                [result |-> "bars", error |-> 0, bars_of |-> attempt + 1,
                 attempts |-> attempt + 1, sleeps |-> sleeps]
           [] answers[attempt + 1] = "other" ->
                [result |-> "raise_other", error |-> attempt + 1, bars_of |-> 0,
                 attempts |-> attempt + 1, sleeps |-> sleeps]
           [] OTHER ->
                fetch_attempt(answers, attempt + 1, max_retries,
                              next_backoff(backoff_seconds),
                              Append(sleeps, backoff_seconds), attempt + 1)

fetch_m1(answers, max_retries, backoff_seconds) ==
    fetch_attempt(answers, 0, max_retries, backoff_seconds, <<>>, 0)

\* The inputs the functions are applied to.
FnHighs == {100, 200}
FnLows == {100, 200}
FnCloses == {120, 135, 150, 165, 170}
FnPcts == {35, 60}
FnEntryBars == [present : {TRUE}, complete : BOOLEAN, close : FnCloses] \cup {NoEntryBar}

\* len(slice_or): up to MaxMissing rows short of the expected rows, or one more
\* (a duplicated minute).
FnRows == (or_expected_rows - MaxMissing)..(or_expected_rows + 1)
FnTolerances == 0..MaxTolerance

\* Bars after the entry: prices around an entry of 100 with a stop 10 away and
\* a target 30 away (long 90/130, short 110/70); the close is the bar's low.
PathPrices == {65, 70, 85, 90, 95, 105, 110, 130, 135}
PathBars == {[high |-> h, low |-> l, close |-> l] : <<h, l>> \in {x \in PathPrices \X PathPrices : x[2] <= x[1]}}
Paths == UNION {[1..n -> PathBars] : n \in 0..MaxPath}
Trades == {[side |-> "long", entry |-> 100, sl |-> 90, tp |-> 130],
           [side |-> "short", entry |-> 100, sl |-> 110, tp |-> 70]}

\* The fill prices a broker's answer can carry: none, one that cannot be
\* parsed, a negative one, zero, and prices away from every signalled entry.
FillPrices == {0 - 1, 0, 119, 151}
Fills == {[kind |-> "missing", px |-> 0], [kind |-> "unparsable", px |-> 0]}
         \cup {[kind |-> "price", px |-> p] : p \in FillPrices}

\* Frames for latest_slice: rows at times of day 0..4 in any order (the
\* function does not ask for sorted rows), bounds 1..3 with start <= end, as
\* main_loop passes them (OR_START, OR_END and EXIT_T, lines 299-300).
SliceTimes == 0..4
SliceBounds == 1..3
SliceBars == [time_ny : SliceTimes, close : {100, 101}]
Frames == [rows : UNION {[1..n -> SliceBars] : n \in 0..MaxRows}, index : {"range"}]

\* Frames for main_loop: candles stamped with their date and minute, oldest
\* first as fetch_m1 sorts them (line 55).  The broker returns its latest
\* candles, whatever their date: minutes 1 and 2 are OR_START and OR_END, 3 is
\* ENTRY_T and 4 is EXIT_T.
SessionMinutes == [or_start |-> 1, or_end |-> 2, entry |-> 3, exit |-> 4]
DatedBars == [d : 1..2, time_ny : SliceTimes, close : {100}]
Older(a, b) == a.d < b.d \/ (a.d = b.d /\ a.time_ny < b.time_ny)
DatedFrames ==
    [rows : {r \in UNION {[1..n -> DatedBars] : n \in 0..MaxRows} :
                \A i \in 1..(Len(r) - 1) : Older(r[i], r[i + 1])},
     index : {"range"}]

\* Opening-range slices for the announcement and the decision.  The bar
\* stamped OR_END is still forming when the levels are announced at OR_END, and
\* up to OR_INCOMPLETE_TOLERANCE rows may arrive later: a later slice has a high
\* at least as high and a low at least as low.
OrLevels == {[or_high |-> h, or_low |-> l] : h \in {200, 300}, l \in {100}}
LaterLevels(first) == {x \in OrLevels : x.or_high >= first.or_high /\ x.or_low <= first.or_low}

\* fetch_m1's inputs: max_retries from 1 up (every caller leaves the default,
\* 3), a wait of 1 or 5 seconds, and what each request meets.
Answers(n) == [1..n -> {"ok", "transport", "other"}]
Backoffs == {1, 5}

\* The main loop does not run while the functions are applied.
LoopIdle == UNCHANGED <<env, prog, hist, PLACE_ORDERS, counted>>

ApplyComputeSignal ==
    /\ LoopIdle
    /\ call = NoCall
    /\ \E b \in FnEntryBars, h \in FnHighs, l \in FnLows, tp \in FnPcts, bp \in FnPcts :
          call' = [fn |-> "compute_signal",
                   in |-> [entry_bar |-> b, or_high |-> h, or_low |-> l,
                           top_pct |-> tp, bot_pct |-> bp],
                   out |-> compute_signal_with(b, h, l, tp, bp, SL_PTS, TP_PTS)]

ApplyComputeSignalForDate ==
    /\ LoopIdle
    /\ call = NoCall
    /\ \E b \in FnEntryBars, empty \in BOOLEAN, h \in FnHighs, l \in FnLows,
          tp \in FnPcts, bp \in FnPcts :
          call' = [fn |-> "compute_signal_for_date",
                   in |-> [or_empty |-> empty, entry_bar |-> b, or_high |-> h, or_low |-> l,
                           top_pct |-> tp, bot_pct |-> bp],
                   out |-> compute_signal_for_date(empty, h, l, b.present, b.close,
                                                   tp, bp, SL_PTS, TP_PTS)]

ApplyCheckOrCompleteness ==
    /\ LoopIdle
    /\ call = NoCall
    /\ \E rows \in FnRows, tol \in FnTolerances :
          call' = [fn |-> "check_or_completeness",
                   in |-> [rows |-> rows, expected |-> or_expected_rows, tolerance |-> tol],
                   out |-> check_or_completeness(rows, or_expected_rows, tol)]

ApplyReplay ==
    /\ LoopIdle
    /\ call = NoCall
    /\ \E rows \in FnRows, b \in FnEntryBars, h \in FnHighs :
       \E l \in {x \in FnLows : x <= h} :
          call' = [fn |-> "replay",
                   in |-> [rows |-> rows, entry_bar |-> b, or_high |-> h, or_low |-> l],
                   out |-> replay(rows, h, l, b)]

ApplySimulateExit ==
    /\ LoopIdle
    /\ call = NoCall
    /\ \E path \in Paths, t \in Trades :
          call' = [fn |-> "simulate_exit",
                   in |-> [path |-> path, trade |-> t],
                   out |-> simulate_exit(path, t.side, t.entry, t.sl, t.tp)]

ApplyExecuteDay ==
    /\ LoopIdle
    /\ call = NoCall
    /\ \E path \in Paths, t \in Trades :
          call' = [fn |-> "execute_day",
                   in |-> [path |-> path, trade |-> t],
                   out |-> execute_day(path, t.side, t.entry, t.sl, t.tp)]

\* Lines 538 and 587-606 of the signal path: the levels unpacked from the
\* signal, then the levels after the accepted order's fill was read.
ApplyAlignToFill ==
    /\ LoopIdle
    /\ call = NoCall
    /\ \E b \in FnEntryBars, h \in FnHighs, fill \in Fills :
       \E l \in {x \in FnLows : x < h} :
          LET sig == compute_signal(b, h, l) IN
          /\ sig.side # "none"
          /\ call' = [fn |-> "align_to_fill",
                      in |-> [side |-> sig.side, fill |-> fill],
                      out |-> [signalled |-> [entry |-> sig.entry, sl |-> sig.sl, tp |-> sig.tp],
                               aligned |-> align_to_fill(sig.side, sig.entry, sig.sl,
                                                         sig.tp, fill)]]

ApplyLatestSlice ==
    /\ LoopIdle
    /\ call = NoCall
    /\ \E df \in Frames, start \in SliceBounds, n \in 1..MaxCalls :
       \E end \in {x \in SliceBounds : start <= x} :
          call' = [fn |-> "latest_slice",
                   in |-> [df |-> df, start |-> start, end |-> end, calls |-> n],
                   out |-> latest_slice_times(df, start, end, n)]

ApplyFetchM1 ==
    /\ LoopIdle
    /\ call = NoCall
    /\ \E max_retries \in 1..MaxRetries, b \in Backoffs :
       \E answers \in Answers(max_retries) :
          call' = [fn |-> "fetch_m1",
                   in |-> [answers |-> answers, max_retries |-> max_retries,
                           backoff_seconds |-> b],
                   out |-> fetch_m1(answers, max_retries, b)]

\* run_bot.compute_signal and or_core.compute_signal_for_date on the same
\* opening range and entry bar, each with its module's configured parameters
\* (the same keys of strategy.yml with the same defaults).
ApplyBothSignals ==
    /\ LoopIdle
    /\ call = NoCall
    /\ \E b \in FnEntryBars, empty \in BOOLEAN, h \in FnHighs, l \in FnLows :
          call' = [fn |-> "both_signals",
                   in |-> [or_empty |-> empty, entry_bar |-> b, or_high |-> h, or_low |-> l],
                   out |-> [live |-> compute_signal(b, h, l),
                            core |-> compute_signal_for_date(empty, h, l, b.present, b.close,
                                                             TOP_PCT, BOT_PCT, SL_PTS, TP_PTS)]]

\* The slices main_loop takes on trade_date = ny_now.date() (line 308) from
\* the candles the broker had then, none of them later than that date.
ApplyMainLoopSlices ==
    /\ LoopIdle
    /\ call = NoCall
    /\ \E df \in DatedFrames, trade_date \in 1..2 :
          /\ \A i \in 1..Len(df.rows) : df.rows[i].d <= trade_date
          /\ call' = [fn |-> "main_loop_slices",
                      in |-> [df |-> df, trade_date |-> trade_date],
                      out |-> main_loop_slices(df, SessionMinutes)]

\* The announcement of the levels and, in the same or a later iteration, the
\* decision on a complete entry bar.
ApplyAnnounceThenDecide ==
    /\ LoopIdle
    /\ call = NoCall
    /\ \E first \in OrLevels, b \in {x \in FnEntryBars : x.present /\ x.complete} :
       \E later \in LaterLevels(first) :
          call' = [fn |-> "announce_then_decide",
                   in |-> [first |-> first, later |-> later, entry_bar |-> b],
                   out |-> announce_then_decide(first, later, b)]

\* The replay path and the live loop on the same bars of one date.
ApplyBothPaths ==
    /\ LoopIdle
    /\ call = NoCall
    /\ \E rows \in FnRows, b \in FnEntryBars, h \in FnHighs :
       \E l \in {x \in FnLows : x <= h} :
          call' = [fn |-> "both_paths",
                   in |-> [rows |-> rows, entry_bar |-> b, or_high |-> h, or_low |-> l],
                   out |-> [replay |-> replay_day(rows, h, l, b),
                            live |-> live_day(rows, h, l, b)]]

\* The function has returned; another one can be applied.
Return ==
    /\ LoopIdle
    /\ call # NoCall
    /\ call' = NoCall

(* --------------------------- specification ----------------------------- *)
Next ==
    \/ Tick
    \/ BrokerCloses
    \/ Crash
    \/ Start
    \/ WeekendIteration
    \/ BeginIteration
    \/ Body
    \/ MonitorPoll
    \/ MonitorHardExit
    \/ WaitForExit
    \/ Finally

Spec == Init /\ [][Next]_vars

\* Log-only mode: main_loop started with PLACE_ORDERS = False (line 28 edited,
\* as its comment foresees) on an account that is flat or holds one position
\* opened before (by a run with the toggle on, or by hand; it is counted
\* under date 1).  No order is accepted in this mode, so the monitoring loop
\* is never entered.
LogOnlyInit == \E held \in 0..1 : InitWith(FALSE, [NoneByDate EXCEPT ![1] = held])

LogOnlyNext ==
    \/ Tick
    \/ BrokerCloses
    \/ Crash
    \/ Start
    \/ WeekendIteration
    \/ BeginIteration
    \/ Body
    \/ WaitForExit
    \/ Finally

LogOnlySpec == LogOnlyInit /\ [][LogOnlyNext]_vars

\* The pure functions, applied to every input of the sets above.
(* ---------------- src/live/run_bot.py: the earlier main_loop ------------ *)
\* main_loop of src/live/run_bot.py keeps the same locals and shares, line for
\* line, the session start (lines 178-200), the heartbeat (216-229), the
\* monitoring and waiting loops (380-443), the except clause (445-448) and the
\* flush (449-530, without the JSON record) with services/trading/run_bot.py.
\* Its iteration body orders the guards differently: the skip blocks (lines
\* 242-278) stand before the last_trade_date guard (line 304), the past-exit
\* block (311-317) comes after it and calls no broker, the opening range must
\* have every row (line 262), and no daily_details is kept.

\* Lines 202-205: fetch_m1(count=400) and the two slices; the candles are the
\* broker's, as for the other loop.
LiveFeed(c) == Feed(c)

\* Lines 338-377: the signal is counted and the order submitted; a cancelled
\* order for INSUFFICIENT_MARGIN asks the account and notifies outside any try
\* (lines 354-362).
LiveSignalPath(d, L, G, e, used) ==
    LET L2 == [L EXCEPT !.summ.signals = @ + 1]
        G2 == [G EXCEPT !.sig[d] = @ + 1]
        e2 == [e EXCEPT !.sigInc = TRUE, !.submitted = TRUE]
        G3 == [G2 EXCEPT !.sub[d] = @ + 1]
        G4 == [G3 EXCEPT !.canc = @ \cup {d}]
    IN  \E o \in {"accepted", "cancelled"}
                 \cup (IF faults + used < MaxFaults THEN {"raise", "cancelled_raise"} ELSE {}) :
           CASE o = "raise" -> Raise(L2, openPos, used + 1, e2, G3)
             [] o = "cancelled_raise" -> Raise(L2, openPos, used + 1, e2, G4)
             [] o = "cancelled" -> Leaf([L2 EXCEPT !.ltd = d], openPos, used, "wait", e2, G4)
             [] o = "accepted" ->
                   Leaf([L2 EXCEPT !.summ.orders = @ + 1, !.ltd = d],
                        [openPos EXCEPT ![d] = @ + 1], used, "monitor", e2, G3)

\* Lines 304-336: the last_trade_date guard, the wait for the entry bar, the
\* past-exit block and the decision.
LiveEntryDecision(d, g, L, G, e, used) ==
    IF L.ltd = d \/ ny_now.t < T_ENTRY_WAIT
    THEN Leaf(L, openPos, used, "finally", e, G)
    ELSE IF after_exit(ny_now.t)
    THEN Leaf(MarkHandled(L, d), openPos, used, "finally", [e EXCEPT !.skipInc = TRUE], G)
    ELSE LET sig == compute_signal(g.entry, g.orHigh, g.orLow)
             e1 == [e EXCEPT !.computed = TRUE, !.reason = sig.reason]
         IN  IF sig.side = "none"
             THEN IF sig.reason = "entry_incomplete"
                  THEN Leaf(L, openPos, used, "finally", e1, G)
                  ELSE Leaf(MarkHandled(L, d), openPos, used, "finally",
                            [e1 EXCEPT !.skipInc = TRUE], G)
             ELSE LiveSignalPath(d, L, G, e1, used)

\* Lines 231-302: the skip blocks and the announcement of the levels.
LiveDayLogic(d, f, L, G, e, used) ==
    LET Skip(reason) == Leaf(MarkSkipped(L, d, reason), openPos, used, "finally",
                             SkippedEv(L, d, e), G)
    IN  IF ny_now.t >= T_GRACE_OVER /\ ~f.entry.present
        THEN Skip("missing_entry_bar")
        ELSE IF after_exit(ny_now.t) /\ ~f.hasExit
        THEN Skip("missing_exit_bar")
        ELSE IF ny_now.t < T_OR_END
        THEN LiveEntryDecision(d, f, L, G, e, used)
        ELSE IF f.orRows # or_expected_rows
        THEN Skip("or_incomplete")
        ELSE IF f.orHigh = f.orLow
        THEN Skip("or_zero_range")
        ELSE IF L.skd[d] = "none" /\ L.ora # d
        THEN LiveEntryDecision(d, f, [L EXCEPT !.ora = d], G,
                               [e EXCEPT !.orAnnounced = TRUE], used)
        ELSE LiveEntryDecision(d, f, L, G, e, used)

\* Lines 201-377 of one iteration: the fetch, the guard of line 214, the
\* heartbeat when it is due, the day logic.
LiveBody ==
    /\ UNCHANGED <<call, PLACE_ORDERS>>
    /\ pc = "fetch"
    /\ \E fo \in Calls(0), elapsed \in (IF last_heartbeat_at = None THEN {TRUE} ELSE BOOLEAN) :
          IF fo = "raise"
          THEN Raise(Locals, openPos, 1, [BodyEv EXCEPT !.hbDue = HeartbeatDue(elapsed)], Life)
          ELSE \E f \in LiveFeed(now) :
                  LET d == ny_now.d
                      e == [FetchedEv(f) EXCEPT !.hbDue = HeartbeatDue(elapsed)]
                  IN  IF AlreadyDecided(d)
                      THEN Leaf(Locals, openPos, 0, "finally", e, Life)
                      ELSE IF ~e.hbDue
                      THEN LiveDayLogic(d, f, Locals, Life, e, 0)
                      ELSE \E o \in Calls(0) :
                              LiveDayLogic(d, f, Heartbeat(Locals, o), Life,
                                           [e EXCEPT !.hb = TRUE, !.hbFailed = (o = "raise")],
                                           IF o = "raise" THEN 1 ELSE 0)
    /\ Counted

LiveNext ==
    \/ Tick
    \/ BrokerCloses
    \/ WeekendIteration
    \/ BeginIteration
    \/ LiveBody
    \/ MonitorPoll
    \/ MonitorHardExit
    \/ WaitForExit
    \/ Finally

LiveSpec == Init /\ [][LiveNext]_vars

FnInit == Init /\ now.t = 0

FnNext ==
    \/ ApplyComputeSignal
    \/ ApplyComputeSignalForDate
    \/ ApplyCheckOrCompleteness
    \/ ApplyReplay
    \/ ApplySimulateExit
    \/ ApplyExecuteDay
    \/ ApplyAlignToFill
    \/ ApplyLatestSlice
    \/ ApplyFetchM1
    \/ ApplyBothPaths
    \/ ApplyBothSignals
    \/ ApplyMainLoopSlices
    \/ ApplyAnnounceThenDecide
    \/ Return

FnSpec == FnInit /\ [][FnNext]_vars

(* ------------------------------ the claims ----------------------------- *)
\* The date is marked: handled, skipped or traded (lines 309 and 337).
Marked(d) == skipped_days[d] # "none" \/ d \in handled_days \/ last_trade_date = d
\* The clock c is at or past the hard exit of date d.
PastExitOn(c, d) == c.d > d \/ (c.d = d /\ after_exit(c.t))
\* Something of date d's summary is on disk.
Written(d) == csvRows[d] > 0 \/ logRows[d] > 0 \/ jsonRec[d] # NoRecord

\* C1: within one process lifetime main_loop submits at most one market order
\* per date and increments summary["signals"] at most once per date, also when
\* a broker, bar-source or notifier call raises inside an iteration.
C1_OneSignalOneOrderPerDate ==
    \A d \in Dates : lifeSubmits[d] <= 1 /\ lifeSignals[d] <= 1

\* C2: once a date is marked handled or skipped (handled_days, skipped_days or
\* last_trade_date), no later iteration body on that date calls compute_signal,
\* submits an order or increments the signals or skipped counter.
C2_MarkedDateNotReEvaluated ==
    [][(pc = "fetch" /\ Marked(ny_now.d))
          => ~(ev'.computed \/ ev'.submitted \/ ev'.sigInc \/ ev'.skipInc)]_vars

\* C2 witness: an iteration body has run on a date that was marked before it.
C2_Witness ==
    /\ ev.body
    /\ ~ev.skipInc
    /\ ny_now.d \in handled_days
    /\ ny_now.t < T_EXIT

\* C3: after a restart during the session of a date whose session was announced
\* and whose signal was decided, main_loop does not announce that session
\* again and does not decide a signal or submit an order again for that date.
C3_ResumesAfterRestart ==
    (resumed # None /\ ny_now.d = resumed)
        => ~(ev.announced \/ ev.sigInc \/ ev.submitted)

\* C4: at most one position is open at the broker at any time, whatever broker
\* calls fail and also after a restart that finds a position open.
C4_AtMostOnePosition == TotalOpen <= 1

\* C5: the end-of-day flush is idempotent: once summary_flushed_for = D, later
\* evaluations of the flush check write nothing more, so D has exactly one CSV
\* row and one summary line, and never more than one of either.
C5_FlushOnce ==
    \A d \in Dates :
        /\ csvRows[d] <= 1
        /\ logRows[d] <= 1
        /\ summary_flushed_for = d => (csvRows[d] = 1 /\ logRows[d] = 1)

\* C5 witness: the finally block has run again for a flushed date, past the
\* hard exit, and has written nothing.
C5_Witness ==
    /\ ev.fin
    /\ ev.flushed = None
    /\ summary_flushed_for # None
    /\ summary_flushed_for = last_trade_date
    /\ after_exit(now.t)
    /\ now.d = summary_flushed_for
    /\ csvRows[summary_flushed_for] = 1

\* C6: a summary is written for date D only at or past D's hard exit and only
\* if the session-start step completed for D.
C6_FlushOnlyAfterExitOfStartedSession ==
    \A d \in Dates : Written(d) => (PastExitOn(now, d) /\ d \in started)

\* C6 witness: a flush has just been made.
C6_Witness == ev.flushed # None /\ csvRows[ev.flushed] = 1

\* C7: for every date whose session-start step completed the flush eventually
\* happens; stated so that a finite run refutes it: main_loop never ends while
\* the flush of such a date, due by line 741, has not been written.
C7_FlushEventuallyHappens ==
    pc = "dead" =>
        ~(/\ last_trade_date # None
          /\ session_started_for = last_trade_date
          /\ csvRows[last_trade_date] = 0)

\* C8: no failure of a collaborator, in any part of an iteration, the flush
\* included, terminates main_loop.
C8_LoopNeverTerminates == pc # "dead"

\* C9: when the broker answers the order with a cancel transaction, no further
\* order is submitted for that date and no position monitoring runs for it.
C9_CancelEndsTheDate ==
    [][\A d \in lifeCancelled :
          /\ lifeSubmits'[d] <= lifeSubmits[d]
          /\ ~(pc' = "monitor" /\ ny_now'.d = d)]_vars

\* C10: once an iteration that started at or after the hard exit of a date has
\* run, no position opened on that date is still open.
C10_FlatAfterHardExit ==
    (pc = "top" /\ ny_now.d # None /\ after_exit(ny_now.t)) => openPos[ny_now.d] = 0

(* ------------------- the claims on the signal decision ----------------- *)
\* The last call decided on a bar at the entry time (complete, where the
\* function looks at the flag) over a non-empty opening range of positive range.
DecisionCase ==
    /\ call.fn \in {"compute_signal", "compute_signal_for_date"}
    /\ call.in.entry_bar.present
    /\ call.in.or_high > call.in.or_low
    /\ call.fn = "compute_signal" => call.in.entry_bar.complete
    /\ call.fn = "compute_signal_for_date" => ~call.in.or_empty
\* The decision of the last call: long, short or none.
DecisionSide == IF call.fn = "compute_signal" THEN call.out.side ELSE call.out.decision
\* 100 * (high - top_pct * range) and 100 * (low + bottom_pct * range) of the last call.
TopCut100 == 100 * call.in.or_high - call.in.top_pct * (call.in.or_high - call.in.or_low)
BottomCut100 == 100 * call.in.or_low + call.in.bot_pct * (call.in.or_high - call.in.or_low)
\* The last call had high = 200, low = 100, top_pct = bottom_pct = 0.35 and close e.
Example(e) ==
    /\ DecisionCase
    /\ call.in.or_high = 200 /\ call.in.or_low = 100
    /\ call.in.top_pct = 35 /\ call.in.bot_pct = 35
    /\ call.in.entry_bar.close = e

\* C11: over a non-empty opening range of positive range and a complete entry
\* bar with close e, the decision is long with stop e - sl_points and target
\* e + tp_points when e >= high - top_pct * range, otherwise short with stop
\* e + sl_points and target e - tp_points when e <= low + bottom_pct * range,
\* otherwise none; with 200, 100, 0.35, 0.35, 25, 75 the cutoffs are 165 and
\* 135, 170 gives long 145/245, 120 gives short 145/45 and 150 gives none.
C11_SignalDecision ==
    LET e == call.in.entry_bar.close IN
    /\ DecisionCase =>
          /\ DecisionSide = (IF 100 * e >= TopCut100 THEN "long"
                             ELSE IF 100 * e <= BottomCut100 THEN "short" ELSE "none")
          /\ DecisionSide = "long" => (call.out.sl = e - SL_PTS /\ call.out.tp = e + TP_PTS)
          /\ DecisionSide = "short" => (call.out.sl = e + SL_PTS /\ call.out.tp = e - TP_PTS)
    /\ Example(170) => (DecisionSide = "long" /\ call.out.sl = 145 /\ call.out.tp = 245)
    /\ Example(165) => DecisionSide = "long"
    /\ Example(120) => (DecisionSide = "short" /\ call.out.sl = 145 /\ call.out.tp = 45)
    /\ Example(135) => DecisionSide = "short"
    /\ Example(150) => DecisionSide = "none"

\* C11 witness: a close on the top cutoff, 165, was decided long.
C11_Witness == Example(165) /\ DecisionSide = "long" /\ call.out.sl = 140

\* C12: when top_pct + bottom_pct exceeds 1 and the close is both at or above
\* the top cutoff and at or below the bottom cutoff, the decision is long.
C12_LongWinsTies ==
    (/\ DecisionCase
     /\ call.in.top_pct + call.in.bot_pct > 100
     /\ 100 * call.in.entry_bar.close >= TopCut100
     /\ 100 * call.in.entry_bar.close <= BottomCut100) => DecisionSide = "long"

\* C12 witness: zones of 0.6 and 0.6 over 100..200 overlap on 140..160, and a
\* close of 150 was decided long.
C12_Witness ==
    /\ DecisionCase
    /\ call.in.top_pct = 60 /\ call.in.bot_pct = 60
    /\ call.in.or_high = 200 /\ call.in.or_low = 100
    /\ call.in.entry_bar.close = 150
    /\ DecisionSide = "long"

\* C13: compute_signal answers no signal with reason missing_entry when there
\* is no bar at the entry time, and no signal with reason entry_incomplete when
\* the bar is there but not complete, whatever its close and the opening range.
C13_MissingOrIncompleteEntry ==
    call.fn = "compute_signal" =>
        /\ ~call.in.entry_bar.present => call.out = NoSignal("missing_entry")
        /\ (call.in.entry_bar.present /\ ~call.in.entry_bar.complete)
              => call.out = NoSignal("entry_incomplete")

\* C13 witness: an incomplete bar whose close, 170, is in the long zone.
C13_Witness ==
    /\ call.fn = "compute_signal"
    /\ call.in.entry_bar = [present |-> TRUE, complete |-> FALSE, close |-> 170]
    /\ call.in.or_high = 200 /\ call.in.or_low = 100 /\ call.in.top_pct = 35
    /\ call.out.reason = "entry_incomplete"

\* C15: compute_signal_for_date answers invalid_or, with no entry, stop or
\* target, whenever the opening-range slice is empty or its range is <= 0,
\* with or without an entry bar and whatever its price: the range is checked
\* before the entry bar is looked for.
C15_InvalidOpeningRange ==
    (/\ call.fn = "compute_signal_for_date"
     /\ (call.in.or_empty \/ call.in.or_high - call.in.or_low <= 0))
        => (call.out.decision = "invalid_or" /\ ~call.out.priced /\ ~call.out.stopped)

\* C15 witness: a range of zero and no entry bar gave invalid_or.
C15_Witness ==
    /\ call.fn = "compute_signal_for_date"
    /\ ~call.in.or_empty /\ call.in.or_high = call.in.or_low
    /\ ~call.in.entry_bar.present
    /\ call.out.decision = "invalid_or"

(* ---------------- the claims on the opening-range checks --------------- *)
\* C17: check_or_completeness returns should_skip exactly when
\* expected_rows - len(or_slice) is greater than the tolerance, a log message
\* exactly when at least one row is missing, and a tweet message exactly when
\* it skips.
C17_CompletenessVerdict ==
    call.fn = "check_or_completeness" =>
        LET missing == call.in.expected - call.in.rows IN
        /\ call.out.should_skip <=> missing > call.in.tolerance
        /\ call.out.log_msg <=> missing >= 1
        /\ call.out.tweet_msg <=> call.out.should_skip

\* C17 witness: as many rows missing as the tolerance allows, and no skip.
C17_Witness ==
    /\ call.fn = "check_or_completeness"
    /\ call.in.tolerance = OR_INCOMPLETE_TOLERANCE
    /\ call.in.expected - call.in.rows = OR_INCOMPLETE_TOLERANCE
    /\ ~call.out.should_skip /\ call.out.log_msg /\ ~call.out.tweet_msg

\* C16: compute_signal is never called with an opening range whose high
\* equals its low: such a date gives no long or short signal and is reported as
\* a zero-range skip; here for the replay path.
C16_ZeroRangeNeverDecided ==
    (call.fn = "replay" /\ call.in.rows = or_expected_rows
                       /\ call.in.or_high = call.in.or_low)
        => (~call.out.computed /\ call.out.side = "none")

\* C14: an iteration in which compute_signal reports entry_incomplete leaves
\* the date unmarked (handled_days, skipped_days, the counters and
\* last_trade_date unchanged), and an iteration on an unmarked date between
\* the entry wait and the hard exit whose bars are complete, and in which no
\* call raises, reaches the long / short / none decision.
C14_IncompleteEntryIsRetried ==
    [][/\ (ev'.body /\ ev'.reason = "entry_incomplete") =>
             /\ handled_days' = handled_days
             /\ skipped_days' = skipped_days
             /\ summary' = summary
             /\ last_trade_date' = last_trade_date
             /\ ~Marked(ny_now.d)'
       /\ (/\ pc = "fetch" /\ ev'.body /\ ev'.good
           /\ ~Marked(ny_now.d)
           /\ T_ENTRY_WAIT <= ny_now.t /\ ny_now.t < T_EXIT
           /\ summary'.errors = summary.errors)
             => ev'.reason \in {"long", "short", "none"}]_vars

\* C14 witness: an iteration found the entry bar incomplete after the entry
\* wait and the date is still unmarked.
C14_Witness ==
    /\ ev.body /\ ev.reason = "entry_incomplete"
    /\ ny_now.t >= T_ENTRY_WAIT
    /\ ~Marked(ny_now.d)
    /\ daily_details["pre_trade_checks"] = ny_now.d

\* C18: main_loop marks a date skipped or handled for an absent entry bar only
\* after the grace period: an iteration up to 5 minutes after the entry bar's
\* close that finds no entry bar leaves the date unmarked.
C18_GracePeriodForEntryBar ==
    (ev.body /\ ev.reason = "missing_entry" /\ ny_now.t < T_GRACE_OVER)
        => ~Marked(ny_now.d)

\* C19: an iteration at or after the hard exit on a date not yet decided whose
\* window holds no bar at the exit time skips the date with the recorded reason
\* missing_exit_bar.
C19_MissingExitBarReason ==
    [][(/\ pc = "fetch" /\ ev'.body /\ ev'.noExit
        /\ after_exit(ny_now.t)
        /\ ~Marked(ny_now.d)
        /\ summary'.errors = summary.errors)
          => skipped_days'[ny_now.d] = "missing_exit_bar"]_vars

(* ------------------- the claims on the exit simulation ----------------- *)
\* The last call walked the bars after an entry.
ExitCase == call.fn \in {"simulate_exit", "execute_day"}
\* Bar i of the last call's path touches the stop / the target.
TouchesStop(i) ==
    LET row == call.in.path[i] t == call.in.trade IN
    IF t.side = "long" THEN row.low <= t.sl ELSE row.high >= t.sl
TouchesTarget(i) ==
    LET row == call.in.path[i] t == call.in.trade IN
    IF t.side = "long" THEN row.high >= t.tp ELSE row.low <= t.tp
\* The bars of the last call's path that touch stop or target.
Touching == {i \in 1..Len(call.in.path) : TouchesStop(i) \/ TouchesTarget(i)}

\* C20: the exit simulation exits at the first bar, in time order, that
\* touches stop or target, at the stop or target price and not at the bar's
\* close; a bar touching both exits as sl at the stop price (long entry 100,
\* stop 90, target 130, bar high 135 low 85: sl at 90).
C20_FirstTouchStopFirst ==
    (ExitCase /\ Touching # {}) =>
        LET i == CHOOSE k \in Touching : \A j \in Touching : k <= j
            t == call.in.trade
        IN  /\ call.out.exit_idx = i
            /\ TouchesStop(i) =>
                  (call.out.exit_reason = "sl" /\ call.out.exit_px = t.sl)
            /\ ~TouchesStop(i) =>
                  (call.out.exit_reason = "tp" /\ call.out.exit_px = t.tp)

\* C20 witness: after a bar that touches nothing, a bar with high 135 and low
\* 85 ended a long from 100 as sl at 90.
C20_Witness ==
    /\ ExitCase
    /\ call.in.trade.side = "long"
    /\ Len(call.in.path) = 2
    /\ Touching = {2}
    /\ call.in.path[2].high = 135 /\ call.in.path[2].low = 85
    /\ call.out.exit_idx = 2 /\ call.out.exit_reason = "sl" /\ call.out.exit_px = 90

\* C21: when no bar after the entry touches stop or target and the path is
\* not empty, the exit simulation (simulate_exit and execute_day) ends with
\* exit reason time, at the last bar of the path, at that bar's close.
C21_TimeExitAtLastClose ==
    (ExitCase /\ Touching = {} /\ call.in.path # <<>>) =>
        LET n == Len(call.in.path) IN
        /\ call.out.exit_reason = "time"
        /\ call.out.exit_idx = n
        /\ call.out.exit_px = call.in.path[n].close

\* C21 witness: a long from 100 (stop 90, target 130) through two quiet bars
\* closing at 95 and then at 105 ended as time at 105, the second bar's close.
C21_Witness ==
    /\ call.fn = "simulate_exit"
    /\ call.in.trade.side = "long"
    /\ Len(call.in.path) = 2
    /\ Touching = {}
    /\ call.in.path[1].close = 95 /\ call.in.path[2].close = 105
    /\ call.out.exit_reason = "time" /\ call.out.exit_idx = 2 /\ call.out.exit_px = 105

\* C22: when there is no bar after the entry bar, the exit simulation of a
\* long or short signal ends as no_trade with a P&L of zero points and zero
\* currency, a defined result, in execute_day and in simulate_exit alike.
C22_EmptyPathIsNoTrade ==
    (ExitCase /\ call.in.path = <<>>) =>
        /\ call.out.exit_reason = "no_trade"
        /\ call.out.has_pnl
        /\ call.out.pnl_pts = 0
        /\ call.out.pnl_usd = 0

\* C23: mfe and mae of simulate_exit are never negative, and are taken over
\* exactly the bars after the entry up to and including the exit bar.
C23_ExcursionsNonNegative ==
    (call.fn = "simulate_exit") =>
        LET t == call.in.trade
            bars == {call.in.path[i] : i \in 1..call.out.exit_idx}
            hi == CHOOSE h \in {b.high : b \in bars} : \A b \in bars : b.high <= h
            lo == CHOOSE l \in {b.low : b \in bars} : \A b \in bars : l <= b.low
        IN  /\ call.out.mfe >= 0
            /\ call.out.mae >= 0
            /\ bars # {} =>
                  /\ call.out.mfe = (IF t.side = "long" THEN hi - t.entry ELSE t.entry - lo)
                  /\ call.out.mae = (IF t.side = "long" THEN t.entry - lo ELSE hi - t.entry)

(* ------------------- the claims on the levels in use ------------------- *)
\* The levels v keep the configured offsets from their entry.
KeepsOffsets(side, v) ==
    IF side = "long"
    THEN v.sl = v.entry - SL_PTS /\ v.tp = v.entry + TP_PTS
    ELSE v.sl = v.entry + SL_PTS /\ v.tp = v.entry - TP_PTS

\* C24: on the signal path, before and after the levels are re-aligned to the
\* broker's fill price, stop and target keep the configured offsets from the
\* entry in use (long: stop = entry - SL_PTS, target = entry + TP_PTS; short
\* mirrored); a missing, unparsable or non-positive fill price leaves the
\* signalled levels unchanged.
C24_LevelsKeepOffsets ==
    (call.fn = "align_to_fill") =>
        /\ KeepsOffsets(call.in.side, call.out.signalled)
        /\ KeepsOffsets(call.in.side, call.out.aligned)
        /\ (call.in.fill.kind # "price" \/ call.in.fill.px <= 0)
              => call.out.aligned = call.out.signalled
        /\ (call.in.fill.kind = "price" /\ call.in.fill.px > 0)
              => call.out.aligned.entry = call.in.fill.px

\* C24 witness: a short signalled at 120 (stop 145, target 45) was filled at
\* 119 and its levels became 119, 144 and 44.
C24_Witness ==
    /\ call.fn = "align_to_fill"
    /\ call.in.side = "short"
    /\ call.out.signalled = [entry |-> 120, sl |-> 145, tp |-> 45]
    /\ call.in.fill = [kind |-> "price", px |-> 119]
    /\ call.out.aligned = [entry |-> 119, sl |-> 144, tp |-> 44]

(* ------------------------ the claims on the feed ----------------------- *)
\* The positions of the last call's frame whose time of day lies in
\* [start, end], and the k-th of them in the frame's order.
InWindow ==
    {i \in 1..Len(call.in.df.rows) :
        /\ call.in.start <= call.in.df.rows[i].time_ny
        /\ call.in.df.rows[i].time_ny <= call.in.end}
KthInWindow(k) ==
    CHOOSE i \in InWindow : Cardinality({j \in InWindow : j < i}) = k - 1

\* C27: latest_slice returns, in source order, exactly the bars whose time of
\* day t has start <= t <= end, bounds included; nothing when the source is
\* empty or no bar matches; and the source is as it was, after one call and
\* after several.
C27_LatestSliceInclusive ==
    (call.fn = "latest_slice") =>
        /\ Len(call.out.result.rows) = Cardinality(InWindow)
        /\ \A k \in 1..Cardinality(InWindow) :
              call.out.result.rows[k] = call.in.df.rows[KthInWindow(k)]
        /\ (call.in.df.rows = <<>> \/ InWindow = {}) => call.out.result.rows = <<>>
        /\ call.out.source = call.in.df

\* C27 witness: called twice with bounds 1 and 3 on the rows at 3 and 1 (in
\* that order), latest_slice returned both, the row at 3 first.
C27_Witness ==
    /\ call.fn = "latest_slice"
    /\ call.in.calls = 2
    /\ call.in.start = 1 /\ call.in.end = 3
    /\ Len(call.in.df.rows) = 2
    /\ call.in.df.rows[1].time_ny = 3 /\ call.in.df.rows[2].time_ny = 1
    /\ call.out.result.rows = call.in.df.rows

\* The first request of the last fetch_m1 call that did not meet a transport
\* error (0: every request met one).
FirstSettled ==
    LET S == {k \in 1..call.in.max_retries : call.in.answers[k] # "transport"}
    IN  IF S = {} THEN 0 ELSE CHOOSE k \in S : \A j \in S : k <= j
RECURSIVE Doubled(_, _)
\* backoff b doubled n times.
Doubled(b, n) == IF n = 0 THEN b ELSE 2 * Doubled(b, n - 1)

\* C28: fetch_m1 ends after at most max_retries attempts: it returns the bars
\* of the first successful attempt and makes no further attempt; the wait
\* after the k-th failed attempt is backoff_seconds doubled k - 1 times; and
\* once all max_retries attempts met a transport error it raises the last one.
C28_FetchRetries ==
    (call.fn = "fetch_m1") =>
        LET k == FirstSettled
            n == call.in.max_retries
        IN  /\ call.out.attempts <= n
            /\ \A i \in 1..Len(call.out.sleeps) :
                  call.out.sleeps[i] = Doubled(call.in.backoff_seconds, i - 1)
            /\ (k # 0 /\ call.in.answers[k] = "ok") =>
                  /\ call.out.result = "bars"
                  /\ call.out.bars_of = k
                  /\ call.out.attempts = k
                  /\ Len(call.out.sleeps) = k - 1
            /\ k = 0 =>
                  /\ call.out.result = "raise"
                  /\ call.out.error = n
                  /\ call.out.attempts = n
                  /\ Len(call.out.sleeps) = n

\* C28 witness: with max_retries 3 and a wait of 5, two transport errors then
\* a success: the bars of the third attempt, after waits of 5 and 10.
C28_Witness ==
    /\ call.fn = "fetch_m1"
    /\ call.in.max_retries = 3
    /\ call.in.answers = <<"transport", "transport", "ok">>
    /\ call.in.backoff_seconds = 5
    /\ call.out.result = "bars" /\ call.out.bars_of = 3
    /\ call.out.sleeps = <<5, 10>>

(* ----------------------- the claims on the heartbeat ------------------- *)
\* C25: every weekday iteration in which the heartbeat interval has passed
\* since the last heartbeat (or none was emitted yet) emits a heartbeat, also
\* on a date already marked handled or skipped.  Stated for the iterations
\* whose fetch returned bars (one whose fetch raises ends at line 297).
C25_HeartbeatWhenDue ==
    (ev.body /\ ev.fetched /\ ev.hbDue) => ev.hb

\* C26: emitting a heartbeat changes only last_heartbeat_at, also when its
\* broker query fails: the locals right after the heartbeat are the locals
\* before it with the new time, the session markers are as they were, and an
\* iteration that ends before OR_END (where the heartbeat is all the body
\* does) leaves handled_days, skipped_days, last_trade_date, the counters,
\* the markers and the per-day record unchanged.
C26_HeartbeatFrame ==
    [][ev'.hb =>
          /\ ev'.hbLocals = [Locals EXCEPT !.hb = Stamp(ny_now)]
          /\ UNCHANGED <<session_announced_for, session_started_for,
                         summary_flushed_for, start_account_snapshot>>
          /\ ny_now.t < T_OR_END =>
                UNCHANGED <<handled_days, skipped_days, last_trade_date, summary,
                            or_announced_for, daily_details>>]_vars

\* C26 witness: a heartbeat was emitted before OR_END, its broker query
\* failed, and no error was counted.
C26_Witness ==
    /\ ev.hb /\ ev.hbFailed
    /\ ny_now.t < T_OR_END
    /\ last_heartbeat_at # None
    /\ summary.errors = 0
    /\ handled_days = {}

(* ------------------------ the claims on the notifier ------------------- *)
\* C29: a notifier call that raises never changes the control outcome of the
\* step: as when the notification succeeds, no error is counted, a date whose
\* order was submitted is marked as traded and main_loop goes on to wait for
\* the exit, and an announced session is started.
C29_NotifierFailureIsHarmless ==
    [][ev'.notifyFailed =>
          /\ summary'.errors = summary.errors
          /\ ev'.submitted =>
                (last_trade_date' = ny_now.d /\ pc' \in {"monitor", "wait"})
          /\ ev'.announced => session_started_for' = ny_now'.d]_vars

(* ------------------------ the claims on log-only mode ------------------ *)
\* C30: with PLACE_ORDERS off main_loop makes no position-changing call to
\* the broker: no step submits a market order, no step calls
\* close_all_trades, and the orders counter stays 0.
C30_LogOnlyNeverTouchesPositions ==
    ~PLACE_ORDERS => (~ev.submitted /\ ~ev.closeAll /\ summary.orders = 0)

(* -------------------- the claims on the order of the day --------------- *)
\* C31: within one process lifetime and for each date, the session and the
\* opening-range levels are each announced at most once (an announcement for a
\* date finds its marker on an earlier date or None, and the markers never go
\* back while the process lives), in the order session, levels, signal: the
\* levels are announced in a session already announced for the date, and a
\* signal is decided only with the levels announced and session_setup set for
\* that date.
C31_AnnouncementsOnceAndInOrder ==
    [][/\ ev'.announced => session_announced_for < ny_now'.d
       /\ ev'.orAnnounced =>
             (or_announced_for < ny_now.d /\ session_announced_for = ny_now.d)
       /\ pc' # "down" =>
             (session_announced_for' >= session_announced_for
              /\ or_announced_for' >= or_announced_for)
       /\ ev'.sigInc =>
             /\ session_announced_for' = ny_now.d
             /\ or_announced_for' = ny_now.d
             /\ daily_details'["session_setup"] = ny_now.d]_vars

\* C31 witness: on date 2, in a process that announced the session and the
\* levels of date 1 before, a signal was decided after both announcements of
\* date 2.
C31_Witness ==
    /\ ev.sigInc
    /\ restarts = 0
    /\ ny_now.d = 2
    /\ lifeSignals[1] > 0
    /\ session_announced_for = 2 /\ or_announced_for = 2

\* C32: for the same bars of one date the replay path and the live loop reach
\* the same outcome: one skips exactly when the other does, with the entry bar
\* there both skip for an incomplete opening range in the same cases, and
\* where neither skips both give the same decision with the same entry, stop
\* and target.
C32_ReplayMatchesLive ==
    call.fn = "both_paths" =>
        LET r == call.out.replay
            l == call.out.live
        IN  /\ IsSkip(r) <=> IsSkip(l)
            /\ call.in.entry_bar.present =>
                   ((r.kind = "or_incomplete") <=> (l.kind = "or_incomplete"))
            /\ ~IsSkip(r) => r = l

\* C33: for every non-empty opening range with a positive range and every
\* trade window whose entry bar is there and complete, run_bot.compute_signal
\* and or_core.compute_signal_for_date give the same side, and for long and
\* short the same entry, stop and target.
C33_SignalsAgree ==
    (/\ call.fn = "both_signals"
     /\ ~call.in.or_empty
     /\ call.in.or_high > call.in.or_low
     /\ call.in.entry_bar.present /\ call.in.entry_bar.complete) =>
        LET a == call.out.live
            b == call.out.core
        IN  /\ a.side = b.decision
            /\ a.side \in {"long", "short"} =>
                  (b.priced /\ b.stopped /\ a.entry = b.entry_price
                   /\ a.sl = b.sl /\ a.tp = b.tp)

\* C33 witness: both functions decide short on a close that sits exactly on
\* the bottom cutoff.
C33_Witness ==
    /\ call.fn = "both_signals"
    /\ ~call.in.or_empty
    /\ call.in.entry_bar.present /\ call.in.entry_bar.complete
    /\ 100 * call.in.entry_bar.close =
          100 * call.in.or_low + BOT_PCT * (call.in.or_high - call.in.or_low)
    /\ call.in.or_high > call.in.or_low
    /\ call.out.live.side = "short" /\ call.out.core.decision = "short"

\* C34: every bar main_loop uses for the decision of date D is dated D: no
\* row of the opening-range slice (its high, low and row count) and no row at
\* ENTRY_T carries another date.
C34_BarsAreOfTheDate ==
    call.fn = "main_loop_slices" =>
        /\ \A i \in 1..Len(call.out.slice_or) :
              call.out.slice_or[i].d = call.in.trade_date
        /\ \A i \in 1..Len(call.out.e_rows) :
              call.out.e_rows[i].d = call.in.trade_date

\* C35: no market order is submitted at or after the hard exit: when the
\* iteration body submits the order, the clock, which went on since the read
\* that began the iteration, is on the iteration's date and before EXIT_T.
C35_NoSubmitAfterHardExit ==
    (ev.body /\ ev.submitted) => (now.d = ny_now.d /\ ~after_exit(now.t))

\* C36: the counters written by the end-of-day flush for date D count only
\* events of date D: when the flush writes the summary of last_trade_date, no
\* event of another date has been counted since the counters were reset.
C36_SummaryCountsOnlyItsDate ==
    [][ev'.flushed # None => counted \subseteq {last_trade_date}]_vars

\* C37: the per-day JSON record written for date D holds no section
\* (session_setup, pre_trade_checks, signal_decision, trade_result) produced
\* on another date.
C37_RecordSectionsAreOfTheDate ==
    \A d \in Dates :
        jsonRec[d] # NoRecord =>
            \A sec \in Sections : jsonRec[d][sec] \in {None, d}

\* C38: the levels and entry bounds stored in a date's record
\* (session_setup.or_high, or_low, or_range and signal_decision.entry_bounds)
\* equal the opening-range high, low and cutoffs compute_signal used for the
\* decision of that date.
C38_RecordedLevelsAreTheUsedOnes ==
    (call.fn = "announce_then_decide" /\ call.out.sig.side \in {"long", "short"}) =>
        LET o == call.out IN
        /\ o.session_setup.or_high = o.used.or_high
        /\ o.session_setup.or_low = o.used.or_low
        /\ o.session_setup.or_range = o.used.or_range
        /\ o.entry_bounds.top_cut100 = o.used.top_cut100
        /\ o.entry_bounds.bottom_cut100 = o.used.bottom_cut100

\* C39: for either side, with the stop sl_points and the target tp_points
\* from the entry and a non-empty path of well-formed bars (low <= close <=
\* high), simulate_exit returns pnl_pts = -sl_points on an sl exit, +tp_points
\* on a tp exit and a value strictly between the two on a time exit, and
\* pnl_usd = pnl_pts * POINT_VAL * POSITION_SIZE.
C39_PnlByExitReason ==
    (/\ call.fn = "simulate_exit"
     /\ call.in.path # <<>>
     /\ \A i \in 1..Len(call.in.path) :
           call.in.path[i].low <= call.in.path[i].close
           /\ call.in.path[i].close <= call.in.path[i].high) =>
        LET t == call.in.trade
            o == call.out
            sl_points == IF t.side = "long" THEN t.entry - t.sl ELSE t.sl - t.entry
            tp_points == IF t.side = "long" THEN t.tp - t.entry ELSE t.entry - t.tp
        IN  /\ o.has_pnl
            /\ o.exit_reason \in {"sl", "tp", "time"}
            /\ o.exit_reason = "sl" => o.pnl_pts = -sl_points
            /\ o.exit_reason = "tp" => o.pnl_pts = tp_points
            /\ o.exit_reason = "time" => (-sl_points < o.pnl_pts /\ o.pnl_pts < tp_points)
            /\ o.pnl_usd = o.pnl_pts * POINT_VAL * POSITION_SIZE

\* C39 witness: a short is closed at the time exit of a two-bar path with a
\* loss smaller than the stop's.
C39_Witness ==
    /\ call.fn = "simulate_exit"
    /\ call.in.trade.side = "short"
    /\ Len(call.in.path) = 2
    /\ call.out.exit_reason = "time"
    /\ call.out.pnl_pts < 0
    /\ call.out.pnl_usd = call.out.pnl_pts * POINT_VAL * POSITION_SIZE

\* C40: in the main_loop of src/live/run_bot.py a date on which a signal was
\* decided is never afterwards added to skipped_days and never increments the
\* skipped counter, in any later iteration of that date.  The dates looked at
\* are those whose signal iteration ran to its end (last_trade_date is the
\* date), so that no exception of the signal path is involved.
C40_SignalledDateNeverSkipped ==
    [][\A d \in Dates :
          (lifeSignals[d] > 0 /\ last_trade_date = d) =>
              /\ skipped_days'[d] = skipped_days[d]
              /\ ny_now'.d = d => summary'.skipped <= summary.skipped]_vars

====
